---------------------------- MODULE Spec2Model ----------------------------
(***************************************************************************)
(* A model of the per-call voice pipeline of twilio-ws:                    *)
(*   - StreamService (services/streamService.ts): the fragment sequencer,  *)
(*   - WebSocketManagerService (services/wsManagerService.ts): the         *)
(*     handlers of one transport connection and of the events of the       *)
(*     services wired to it,                                               *)
(*   - TtsService, GptService, WebSocketConfigService at the calls the     *)
(*     manager makes on them.                                              *)
(* wsManagerService.ts holds several revisions of the manager class.  The  *)
(* current one is lines 1-424 and is the one modelled; of the superseded   *)
(* revision of lines 425-737, the only one that sends `clear`, the         *)
(* 'utterance' listener is modelled too (UtteranceR2, specification SpecR2).*)
(***************************************************************************)
EXTENDS Integers, Sequences, FiniteSets, TLC

(***************************************************************************)
(* Bounds of the model.                                                    *)
(***************************************************************************)
MaxStarts == 1      \* inbound `start` messages on the connection
MaxStops == 2       \* inbound `stop` messages
MaxIdx == 2         \* largest fragment index carried by a 'speech' event
MaxSpeech == 4      \* 'speech' events, in the sequencer's specification
LifeSpeech == 2     \* 'speech' events, in the lifecycle specification
TalkSpeech == 2     \* 'speech' events, in the conversation specifications
MaxMarksIn == 1     \* inbound `mark` messages
MaxUtter == 1       \* interim recognition results
MaxTrans == 1       \* final recognition results
MaxChunks == 2      \* chunks read from language-model streams
MaxWsErrors == 1    \* 'error' events of the websocket
MaxSttErrors == 1   \* Error events of the recognizers' connections
CallTrans == 2      \* final recognition results, in the call's specification
CallStops == 1      \* inbound `stop` messages, in the call's and the sequencer's specifications
CallChunks == 1     \* chunks read from language-model streams, likewise
PairSpeech == 1     \* 'speech' events, in the specification of two calls
StallSpeech == 4    \* 'speech' events, in the specification of a missing fragment
MaxMedia == 2       \* inbound `media` messages
MaxMalformed == 1   \* malformed inbound messages
MalMedia == 1       \* inbound `media` messages, among the malformed ones
GenTrans == 2       \* final recognition results, in the generator's specification
GenChunks == 3      \* chunks read from language-model streams, likewise
MaxDg == 4          \* results delivered by the recognizer
MaxCfg == 3         \* calls of the configuration service

NULL == -1          \* partialResponseIndex: null, the greeting's index
NoSess == 0         \* `connection` is null / no entry in activeConnections

ConnIds == {1}              \* the connection of the single-call specifications
PairConnIds == {1, 2}       \* the connections of two concurrent calls
Sessions == 1..(MaxStarts + 1)
Indices == 0..MaxIdx

(***************************************************************************)
(* The configuration records held by WebSocketConfigService.               *)
(***************************************************************************)
Configurations ==
  { [id |-> "cfg1", phoneNumber |-> "p1", isActive |-> TRUE],
    [id |-> "cfg2", phoneNumber |-> "p2", isActive |-> FALSE] }

\* what msg.start.customParameters.phoneNumber may hold ("" when it is absent)
StartPhones == {"p1", "p2", "p9", ""}

\* interim recognition texts, as sequences of characters
Texts == { << >>, << " " >>, << "h", "e", "l", "l", "o" >>,
           << "h", "e", "l", "l", "o", "!" >> }

\* final recognition texts: TranscriptionService.finalResult is empty or
\* holds each final piece after a blank
FinalTexts == { << >>, << " ", "h", "i" >> }

VARIABLES
  wsState,            \* per connection: "open" | "closed"
  connection,         \* per connection: the handler's `connection` variable
  startAwait,         \* per connection: phone numbers of the `start` handlers
                      \*   suspended in `await getWebSocketConfigByPhone`
  activeConnections,  \* the manager's map connectionId -> session
  wsOut,              \* per connection: the frames handed to ws.send
  nSess,              \* session objects created so far
  sessWs,             \* per session: the connection its StreamService sends on
  wired,              \* per session: its services carry the manager's listeners
  expectedAudioIndex, \* per session: StreamService.expectedAudioIndex
  audioBuffer,        \* per session: StreamService.audioBuffer
  marks,              \* per session: connection.marks
  interactionCount,   \* per session: connection.interactionCount
  transcriptionsReceived,
  greetingTimer,      \* per session: the setTimeout of the greeting is pending
  partialResponseIndex, \* per session: GptService.partialResponseIndex
  gptStreams,         \* per session: the completion() calls still streaming
  userContext,        \* per session: GptService.userContext
  nextMark,           \* uuidv4(): labels minted so far
  errorLog,           \* per session: 'error' events handled by handleError
  processExit,        \* an unhandled rejection reached process.exit(1)
  arrivals,           \* history: the 'speech' events delivered, in order
  ttsFailed,          \* history: fragments whose generate() emitted 'error'
  heard,              \* history: the interim results handled, in order
  finalResult,        \* per session: TranscriptionService.finalResult, a text
  speechFinal,        \* per session: TranscriptionService.speechFinal
  dgLog,              \* history: the recognizer's results handled, in order,
                      \*   with the event each one made the service emit
  configurations,     \* WebSocketConfigService.configurations, the in-memory map
  initialized,        \* WebSocketConfigService.initialized
  store,              \* the rows of the table websocket_configs
  cfgOps,             \* the service's calls that await the database
  cfgLog,             \* history: the service's calls that returned, in order
  stops,              \* history: the `stop` messages and closes handled, with
                      \*   the session each one cleaned up (NoSess: none)
  hist,               \* history: further records of what was handled (below)
  budget              \* the inputs of each kind the environment may still send

vars == << wsState, connection, startAwait, activeConnections, wsOut, nSess,
           sessWs, wired, expectedAudioIndex, audioBuffer, marks,
           interactionCount, transcriptionsReceived, greetingTimer,
           partialResponseIndex, gptStreams, userContext, nextMark, errorLog,
           processExit, arrivals, ttsFailed, heard, finalResult, speechFinal, dgLog,
           configurations, initialized, store, cfgOps, cfgLog, stops, hist, budget >>

cfgVars == << configurations, initialized, store, cfgOps, cfgLog >>

sessVars == << nSess, sessWs, wired, expectedAudioIndex, audioBuffer, marks,
               interactionCount, transcriptionsReceived, greetingTimer,
               partialResponseIndex, gptStreams, userContext >>

EmptyBuffer == << >>

Frame(event, arg) == [event |-> event, arg |-> arg]

Last(seq) == seq[Len(seq)]

\* hist.finals: the final recognition results emitted, in order;
\* hist.reported: the names of the `mark` messages handled;
\* hist.wsErrors: the connections whose websocket reported an 'error';
\* hist.replies: the 'gptreply' events emitted, in order, each with the
\*   number of 'speech' events delivered before it;
\* hist.failedGen: the completion() calls that ended in their catch;
\* hist.sttErrors: the sessions whose recognizer has reported an error;
\* hist.sttOpened: the sessions whose recognizer connection has opened;
\* hist.media: the `media` messages handled, in order, each with the session
\*   the handler held and whether the payload was passed to the recognizer;
\* hist.malformed: the malformed messages handled, in order
NoHistory == [finals |-> << >>, reported |-> {}, wsErrors |-> {},
              replies |-> << >>, failedGen |-> {}, sttErrors |-> {},
              sttOpened |-> {}, media |-> << >>, malformed |-> << >>]

\* An entry of GptService.userContext; contents are sequences of words.
Message(role, content) == [role |-> role, content |-> content]

\* The context the GptService constructor builds: the system prompt and the
\* welcome message.
InitialContext ==
  << Message("system", << "prompt" >>), Message("assistant", << "welcome" >>) >>

\* completion() up to its first `await`: the variables of a new stream.
NewStream(icount) ==
  [icount |-> icount, partialEmpty |-> TRUE, partial |-> << >>, complete |-> << >>]

Constructed ==
  /\ wsState = [c \in PairConnIds |-> "open"]
  /\ connection = [c \in PairConnIds |-> NoSess]
  /\ startAwait = [c \in PairConnIds |-> << >>]
  /\ activeConnections = [c \in PairConnIds |-> NoSess]
  /\ wsOut = [c \in PairConnIds |-> << >>]
  /\ nSess = 0
  /\ sessWs = [s \in Sessions |-> 0]
  /\ wired = [s \in Sessions |-> FALSE]
  /\ expectedAudioIndex = [s \in Sessions |-> 0]
  /\ audioBuffer = [s \in Sessions |-> EmptyBuffer]
  /\ marks = [s \in Sessions |-> << >>]
  /\ interactionCount = [s \in Sessions |-> 0]
  /\ transcriptionsReceived = [s \in Sessions |-> 0]
  /\ greetingTimer = [s \in Sessions |-> FALSE]
  /\ partialResponseIndex = [s \in Sessions |-> 0]
  /\ gptStreams = [s \in Sessions |-> {}]
  /\ userContext = [s \in Sessions |-> InitialContext]
  /\ nextMark = 0
  /\ errorLog = [s \in Sessions |-> 0]
  /\ processExit = FALSE
  /\ arrivals = << >>
  /\ ttsFailed = {}
  /\ heard = << >>
  /\ finalResult = [s \in Sessions |-> << >>]
  /\ speechFinal = [s \in Sessions |-> FALSE]
  /\ dgLog = << >>
  /\ configurations = {}
  /\ initialized = FALSE
  /\ store = Configurations
  /\ cfgOps = {}
  /\ cfgLog = << >>
  /\ stops = << >>
  /\ hist = NoHistory

Kinds == {"start", "stop", "speech", "mark", "utter", "trans", "chunk",
          "wserror", "stterror", "media", "malformed", "dg", "cfg"}

NoInput == [k \in Kinds |-> 0]

Use(k) == [budget EXCEPT ![k] = @ - 1]

\* process.exit(1) ends every handler of the process
Running == ~processExit

(***************************************************************************)
(* StreamService (services/streamService.ts)                               *)
(***************************************************************************)

\* The two ws.send calls of one sendAudio: the media frame, then its mark.
sendAudio(audio, markLabel) ==
  << Frame("media", audio), Frame("mark", markLabel) >>

\* sendAudio calls that reuse one label
RECURSIVE sendAllSameLabel(_, _)
sendAllSameLabel(audios, minted) ==
  IF audios = << >> THEN << >>
  ELSE sendAudio(Head(audios), minted + 1) \o sendAllSameLabel(Tail(audios), minted)

\* The frames of sendAudio called on each of `audios` in turn, the labels
\* being the next uuids.
RECURSIVE sendAll(_, _)
sendAll(audios, minted) ==
  IF audios = << >> THEN << >>
  ELSE sendAudio(Head(audios), minted + 1) \o sendAll(Tail(audios), minted + 1)

\* this.audioBuffer[index] = audio
BufferPut(buf, index, audio) ==
  [i \in (DOMAIN buf) \cup {index} |-> IF i = index THEN audio ELSE buf[i]]

\* The while loop of buffer(): the cursor after the drain that starts at e.
RECURSIVE drainTo(_, _)
drainTo(buf, e) == IF e \in DOMAIN buf THEN drainTo(buf, e + 1) ELSE e

\* buffer() without its while loop: buffered successors are never drained
bufferNoDrain(expected, buf, index, audio) ==
  IF index = NULL
    THEN [expected |-> expected, buf |-> buf, sent |-> << audio >>]
  ELSE IF index = expected
    THEN [expected |-> expected + 1, buf |-> buf, sent |-> << audio >>]
  ELSE [expected |-> expected, buf |-> BufferPut(buf, index, audio), sent |-> << >>]

\* buffer() sending every fragment as it arrives
bufferUnordered(expected, buf, index, audio) ==
  [expected |-> IF index = expected THEN expected + 1 ELSE expected,
   buf |-> buf, sent |-> << audio >>]

\* buffer() with `index <= expected` for `index === expected`
bufferStaleResend(expected, buf, index, audio) ==
  IF index = NULL
    THEN [expected |-> expected, buf |-> buf, sent |-> << audio >>]
  ELSE IF index <= expected
    THEN LET e == drainTo(buf, expected + 1)
         IN  [expected |-> e, buf |-> buf,
              sent |-> << audio >> \o [i \in 1..(e - expected - 1) |-> buf[expected + i]]]
  ELSE [expected |-> expected, buf |-> BufferPut(buf, index, audio), sent |-> << >>]

\* buffer() without the `index === null` branch
bufferNullQueued(expected, buf, index, audio) ==
  IF index = expected
    THEN LET e == drainTo(buf, expected + 1)
         IN  [expected |-> e, buf |-> buf,
              sent |-> << audio >> \o [i \in 1..(e - expected - 1) |-> buf[expected + i]]]
  ELSE [expected |-> expected, buf |-> BufferPut(buf, index, audio), sent |-> << >>]

\* buffer() that gives up on a missing index: an index above the cursor is
\* sent at once and the cursor jumps past it
bufferSkipsMissing(expected, buf, index, audio) ==
  IF index = NULL
    THEN [expected |-> expected, buf |-> buf, sent |-> << audio >>]
  ELSE IF index >= expected
    THEN [expected |-> index + 1, buf |-> buf, sent |-> << audio >>]
  ELSE [expected |-> expected, buf |-> BufferPut(buf, index, audio), sent |-> << >>]

\* buffer(index, audio) on a StreamService whose cursor is `expected` and
\* whose audioBuffer is `buf`: the new cursor, the new buffer and the audios
\* passed to sendAudio, in order.  The loop reads the buffered entries and
\* leaves them in the buffer.
buffer(expected, buf, index, audio) ==
  IF index = NULL
    THEN [expected |-> expected, buf |-> buf, sent |-> << audio >>]
  ELSE IF index = expected
    THEN LET e == drainTo(buf, expected + 1)
         IN  [expected |-> e, buf |-> buf,
              sent |-> << audio >> \o [i \in 1..(e - expected - 1) |-> buf[expected + i]]]
  ELSE [expected |-> expected, buf |-> BufferPut(buf, index, audio), sent |-> << >>]

\* The effect of the sendAudio calls of one buffer() call of session s:
\* frames on its websocket (ws.send drops them once the socket is closed),
\* fresh labels, and the 'audiosent' listener pushing each label on marks.
SendFrames(s, audios) ==
  LET c == sessWs[s]
      k == Len(audios)
  IN  /\ wsOut' = [wsOut EXCEPT ![c] =
                     IF wsState[c] = "open" THEN @ \o sendAll(audios, nextMark) ELSE @]
      /\ nextMark' = nextMark + k
      /\ marks' = [marks EXCEPT ![s] =
                     IF wired[s] THEN @ \o [i \in 1..k |-> nextMark + i] ELSE @]

(***************************************************************************)
(* WebSocketConfigService.getWebSocketConfigByPhone                        *)
(***************************************************************************)
getWebSocketConfigByPhone(phoneNumber) ==
  LET found == { cfg \in Configurations : cfg.phoneNumber = phoneNumber }
  IN  IF found = {}
        THEN [ok |-> FALSE, code |-> "CONFIG_NOT_FOUND", id |-> "", isActive |-> FALSE]
        ELSE LET cfg == CHOOSE x \in found : TRUE
             IN  [ok |-> TRUE, code |-> "", id |-> cfg.id, isActive |-> cfg.isActive]

(***************************************************************************)
(* TtsService.generate as the manager calls it: the argument is the        *)
(* gptReply object, not a string, so `text.trim()` throws inside the try   *)
(* and the catch emits 'error'.  With the manager's 'error' listener in    *)
(* place the error is logged; without it emit('error') throws inside the   *)
(* async function and the rejection reaches process.exit(1).               *)
(***************************************************************************)
\* A generate() whose 'error' event finds no listener.
TtsGenerateUnhandled(s, index) ==
  /\ ttsFailed' = ttsFailed \cup { [sess |-> s, index |-> index] }
  /\ processExit' = TRUE
  /\ UNCHANGED errorLog

TtsGenerate(s, index) ==
  /\ ttsFailed' = ttsFailed \cup { [sess |-> s, index |-> index] }
  /\ IF wired[s]
       THEN /\ errorLog' = [errorLog EXCEPT ![s] = @ + 1]
            /\ UNCHANGED processExit
       ELSE /\ processExit' = TRUE
            /\ UNCHANGED errorLog

(***************************************************************************)
(* The transport's messages (handleWebSocketConnection, current revision)  *)
(***************************************************************************)

\* case 'start': the handler runs up to `await getWebSocketConfigByPhone`.
WsStart(c, phone) ==
  /\ Running
  /\ wsState[c] = "open"
  /\ budget["start"] > 0
  /\ startAwait' = [startAwait EXCEPT ![c] =
                      Append(@, IF phone = "" THEN "unknown" ELSE phone)]
  /\ budget' = Use("start")
  /\ UNCHANGED << wsState, connection, activeConnections, wsOut, sessVars,
                  nextMark, errorLog, processExit, arrivals, ttsFailed, heard, finalResult, speechFinal, dgLog, cfgVars, stops, hist >>

\* handleStreamStart after the lookup: on success the session is built,
\* wired, registered and its greeting timer set, and `connection` is
\* assigned; on an error null is returned and assigned.
handleStreamStart(c, config) ==
  IF config.ok
    THEN LET s == nSess + 1
         IN  /\ nSess' = s
             /\ sessWs' = [sessWs EXCEPT ![s] = c]
             /\ wired' = [wired EXCEPT ![s] = TRUE]
             /\ activeConnections' = [activeConnections EXCEPT ![c] = s]
             /\ greetingTimer' = [greetingTimer EXCEPT ![s] = TRUE]
             /\ connection' = [connection EXCEPT ![c] = s]
             /\ userContext' = [userContext EXCEPT ![s] =
                                  Append(@, Message("system", << "callSid" >>))]
    ELSE /\ connection' = [connection EXCEPT ![c] = NoSess]
         /\ UNCHANGED << nSess, sessWs, wired, activeConnections, greetingTimer,
                         userContext >>

StartResume(c) ==
  /\ Running
  /\ startAwait[c] # << >>
  /\ startAwait' = [startAwait EXCEPT ![c] = Tail(@)]
  /\ handleStreamStart(c, getWebSocketConfigByPhone(Head(startAwait[c])))
  /\ UNCHANGED << wsState, wsOut, expectedAudioIndex, audioBuffer, marks,
                  interactionCount, transcriptionsReceived,
                  partialResponseIndex, gptStreams, nextMark, errorLog,
                  processExit, arrivals, ttsFailed, heard, finalResult, speechFinal, dgLog, cfgVars, stops, hist, budget >>

\* The greeting's setTimeout fires: ttsService.generate({null, welcome}, 0).
GreetingTimer(s) ==
  /\ Running
  /\ greetingTimer[s]
  /\ greetingTimer' = [greetingTimer EXCEPT ![s] = FALSE]
  /\ TtsGenerate(s, NULL)
  /\ UNCHANGED << wsState, connection, startAwait, activeConnections, wsOut,
                  nSess, sessWs, wired, expectedAudioIndex, audioBuffer, marks,
                  interactionCount, transcriptionsReceived,
                  partialResponseIndex, gptStreams, userContext, nextMark, arrivals, heard, finalResult, speechFinal, dgLog, cfgVars, stops, hist, budget >>

\* case 'mark' emptying connection.marks
WsMarkClearsAll(c, name) ==
  /\ Running
  /\ wsState[c] = "open"
  /\ budget["mark"] > 0
  /\ budget' = Use("mark")
  /\ hist' = [hist EXCEPT !.reported = @ \cup {name}]
  /\ IF connection[c] # NoSess
       THEN marks' = [marks EXCEPT ![connection[c]] =
                        << >>]
       ELSE UNCHANGED marks
  /\ UNCHANGED << wsState, connection, startAwait, activeConnections, wsOut,
                  nSess, sessWs, wired, expectedAudioIndex, audioBuffer,
                  interactionCount, transcriptionsReceived, greetingTimer,
                  partialResponseIndex, gptStreams, userContext, nextMark, errorLog,
                  processExit, arrivals, ttsFailed, heard, finalResult, speechFinal, dgLog, cfgVars, stops >>

\* case 'mark': connection.marks = connection.marks.filter(m => m !== name)
WsMark(c, name) ==
  /\ Running
  /\ wsState[c] = "open"
  /\ budget["mark"] > 0
  /\ budget' = Use("mark")
  /\ hist' = [hist EXCEPT !.reported = @ \cup {name}]
  /\ IF connection[c] # NoSess
       THEN marks' = [marks EXCEPT ![connection[c]] =
                        SelectSeq(@, LAMBDA m : m # name)]
       ELSE UNCHANGED marks
  /\ UNCHANGED << wsState, connection, startAwait, activeConnections, wsOut,
                  nSess, sessWs, wired, expectedAudioIndex, audioBuffer,
                  interactionCount, transcriptionsReceived, greetingTimer,
                  partialResponseIndex, gptStreams, userContext, nextMark, errorLog,
                  processExit, arrivals, ttsFailed, heard, finalResult, speechFinal, dgLog, cfgVars, stops >>

\* cleanupConnection without removeAllListeners
cleanupKeepsListeners(c) ==
  LET s == activeConnections[c]
  IN  IF s # NoSess
        THEN /\ expectedAudioIndex' = [expectedAudioIndex EXCEPT ![s] = 0]
             /\ audioBuffer' = [audioBuffer EXCEPT ![s] = EmptyBuffer]
             /\ activeConnections' = [activeConnections EXCEPT ![c] = NoSess]
             /\ UNCHANGED wired
        ELSE UNCHANGED << wired, expectedAudioIndex, audioBuffer, activeConnections >>

\* A cleanup that removes the listeners of every session, as it would with
\* service instances shared between the connections.
cleanupSharedServices(c) ==
  LET s == activeConnections[c]
  IN  IF s # NoSess
        THEN /\ wired' = [x \in Sessions |-> FALSE]
             /\ expectedAudioIndex' = [expectedAudioIndex EXCEPT ![s] = 0]
             /\ audioBuffer' = [audioBuffer EXCEPT ![s] = EmptyBuffer]
             /\ activeConnections' = [activeConnections EXCEPT ![c] = NoSess]
        ELSE UNCHANGED << wired, expectedAudioIndex, audioBuffer, activeConnections >>

\* cleanupConnection(connectionId): the session registered under the id
\* loses its listeners, its StreamService is cleared, the entry is deleted.
cleanupConnection(c) ==
  LET s == activeConnections[c]
  IN  IF s # NoSess
        THEN /\ wired' = [wired EXCEPT ![s] = FALSE]
             /\ expectedAudioIndex' = [expectedAudioIndex EXCEPT ![s] = 0]
             /\ audioBuffer' = [audioBuffer EXCEPT ![s] = EmptyBuffer]
             /\ activeConnections' = [activeConnections EXCEPT ![c] = NoSess]
        ELSE UNCHANGED << wired, expectedAudioIndex, audioBuffer, activeConnections >>

\* case 'stop'
WsStop(c) ==
  /\ Running
  /\ wsState[c] = "open"
  /\ budget["stop"] > 0
  /\ budget' = Use("stop")
  /\ stops' = Append(stops, [kind |-> "stop",
                           sess |-> IF connection[c] # NoSess
                                      THEN activeConnections[c] ELSE NoSess])
  /\ IF connection[c] # NoSess
       THEN cleanupConnection(c)
       ELSE UNCHANGED << wired, expectedAudioIndex, audioBuffer, activeConnections >>
  /\ UNCHANGED << wsState, connection, startAwait, wsOut, nSess, sessWs, marks,
                  interactionCount, transcriptionsReceived, greetingTimer,
                  partialResponseIndex, gptStreams, userContext, nextMark, errorLog,
                  processExit, arrivals, ttsFailed, heard, finalResult, speechFinal, dgLog, cfgVars, hist >>

\* ws.on('close')
WsClose(c) ==
  /\ Running
  /\ wsState[c] = "open"
  /\ wsState' = [wsState EXCEPT ![c] = "closed"]
  /\ stops' = Append(stops, [kind |-> "close",
                           sess |-> IF connection[c] # NoSess
                                      THEN activeConnections[c] ELSE NoSess])
  /\ IF connection[c] # NoSess
       THEN cleanupConnection(c)
       ELSE UNCHANGED << wired, expectedAudioIndex, audioBuffer, activeConnections >>
  /\ UNCHANGED << connection, startAwait, wsOut, nSess, sessWs, marks,
                  interactionCount, transcriptionsReceived, greetingTimer,
                  partialResponseIndex, gptStreams, userContext, nextMark, errorLog,
                  processExit, arrivals, ttsFailed, heard, finalResult, speechFinal, dgLog, cfgVars, hist, budget >>

\* The Open event of the recognizer connection of session s: from now on
\* TranscriptionService.send passes the audio on (getReadyState() === 1).
DgOpen(s) ==
  /\ Running
  /\ s \in 1..nSess
  /\ s \notin hist.sttOpened
  /\ hist' = [hist EXCEPT !.sttOpened = @ \cup {s}]
  /\ UNCHANGED << wsState, connection, startAwait, activeConnections, wsOut,
                  sessVars, nextMark, errorLog, processExit, arrivals, ttsFailed,
                  heard, finalResult, speechFinal, dgLog, cfgVars, stops, budget >>

\* case 'media' with a payload: the handler passes it to the recognizer of
\* the session it holds, which sends it on when its connection is open.
WsMedia(c) ==
  /\ Running
  /\ wsState[c] = "open"
  /\ budget["media"] > 0
  /\ budget' = Use("media")
  /\ LET s == connection[c]
     IN  hist' = [hist EXCEPT !.media =
                    Append(@, [conn |-> c, sess |-> s,
                               pending |-> startAwait[c] # << >>,
                               stopped |-> \E i \in DOMAIN stops :
                                              stops[i].sess = s /\ s # NoSess,
                               forwarded |-> s # NoSess /\ s \in hist.sttOpened])]
  /\ UNCHANGED << wsState, connection, startAwait, activeConnections, wsOut,
                  sessVars, nextMark, errorLog, processExit, arrivals, ttsFailed,
                  heard, finalResult, speechFinal, dgLog, cfgVars, stops >>

\* the malformed messages: a text JSON.parse rejects, a `start` without
\* msg.start, a `media` without msg.media.payload, a `mark` without msg.mark
MalformedKinds == {"unparseable", "start", "media", "mark"}

\* A handler that treats a `start` without msg.start as a failed start.
WsMalformedDropsSession(c, kind) ==
  /\ Running
  /\ wsState[c] = "open"
  /\ budget["malformed"] > 0
  /\ budget' = Use("malformed")
  /\ hist' = [hist EXCEPT !.malformed =
                Append(@, [conn |-> c, kind |-> kind, media |-> Len(hist.media)])]
  /\ connection' = IF kind = "start" THEN [connection EXCEPT ![c] = NoSess]
                   ELSE connection
  /\ UNCHANGED << wsState, startAwait, activeConnections, wsOut,
                  sessVars, nextMark, errorLog, processExit, arrivals, ttsFailed,
                  heard, finalResult, speechFinal, dgLog, cfgVars, stops >>

\* ws.on('message') with a malformed message: JSON.parse throws into the
\* catch, which logs; the guards `if (msg.start)`, `connection &&
\* msg.media?.payload` and `connection && msg.mark` skip the case.
WsMalformed(c, kind) ==
  /\ Running
  /\ wsState[c] = "open"
  /\ budget["malformed"] > 0
  /\ budget' = Use("malformed")
  /\ hist' = [hist EXCEPT !.malformed =
                Append(@, [conn |-> c, kind |-> kind, media |-> Len(hist.media)])]
  /\ UNCHANGED << wsState, connection, startAwait, activeConnections, wsOut,
                  sessVars, nextMark, errorLog, processExit, arrivals, ttsFailed,
                  heard, finalResult, speechFinal, dgLog, cfgVars, stops >>

\* ws.on('error'): the error is logged.
WsError(c) ==
  /\ Running
  /\ wsState[c] = "open"
  /\ budget["wserror"] > 0
  /\ budget' = Use("wserror")
  /\ hist' = [hist EXCEPT !.wsErrors = @ \cup {c}]
  /\ UNCHANGED << wsState, connection, startAwait, activeConnections, wsOut,
                  sessVars, nextMark, errorLog, processExit, arrivals, ttsFailed,
                  heard, finalResult, speechFinal, dgLog, cfgVars, stops >>

\* LiveTranscriptionEvents.Error on the recognizer of session s: the
\* TranscriptionService logs it with console.error and emits nothing.
SttError(s) ==
  /\ Running
  /\ s \in 1..nSess
  /\ budget["stterror"] > 0
  /\ budget' = Use("stterror")
  /\ hist' = [hist EXCEPT !.sttErrors = @ \cup {s}]
  /\ UNCHANGED << wsState, connection, startAwait, activeConnections, wsOut,
                  sessVars, nextMark, errorLog, processExit, arrivals, ttsFailed,
                  heard, finalResult, speechFinal, dgLog, cfgVars, stops >>

(***************************************************************************)
(* The services' events (setupEventListeners, current revision)            *)
(***************************************************************************)

\* the 'speech' listener surviving cleanupConnection
SpeechNeverRemoved(s, index) ==
  /\ Running
  /\ s <= nSess
  /\ budget["speech"] > 0
  /\ LET audio == Len(arrivals) + 1
         r == buffer(expectedAudioIndex[s], audioBuffer[s], index, audio)
     IN  /\ expectedAudioIndex' = [expectedAudioIndex EXCEPT ![s] = r.expected]
         /\ audioBuffer' = [audioBuffer EXCEPT ![s] = r.buf]
         /\ SendFrames(s, r.sent)
  /\ arrivals' = Append(arrivals, [sess |-> s, index |-> index])
  /\ budget' = Use("speech")
  /\ UNCHANGED << wsState, connection, startAwait, activeConnections, nSess,
                  sessWs, wired, interactionCount, transcriptionsReceived,
                  greetingTimer, partialResponseIndex, gptStreams, userContext,
                  errorLog,
                  processExit, ttsFailed, heard, finalResult, speechFinal, dgLog, cfgVars, stops, hist >>

\* ttsService.on('speech', ...): streamService.buffer(responseIndex, audio).
\* The k-th 'speech' event of a run carries the audio payload k.
Speech(s, index) ==
  /\ Running
  /\ wired[s]
  /\ budget["speech"] > 0
  /\ LET audio == Len(arrivals) + 1
         r == buffer(expectedAudioIndex[s], audioBuffer[s], index, audio)
     IN  /\ expectedAudioIndex' = [expectedAudioIndex EXCEPT ![s] = r.expected]
         /\ audioBuffer' = [audioBuffer EXCEPT ![s] = r.buf]
         /\ SendFrames(s, r.sent)
  /\ arrivals' = Append(arrivals, [sess |-> s, index |-> index])
  /\ budget' = Use("speech")
  /\ UNCHANGED << wsState, connection, startAwait, activeConnections, nSess,
                  sessWs, wired, interactionCount, transcriptionsReceived,
                  greetingTimer, partialResponseIndex, gptStreams, userContext,
                  errorLog,
                  processExit, ttsFailed, heard, finalResult, speechFinal, dgLog, cfgVars, stops, hist >>


\* String.prototype.trim on a text given as a sequence of characters
IsSpace(ch) == ch = " "

RECURSIVE TrimStart(_)
TrimStart(text) ==
  IF text # << >> /\ IsSpace(Head(text)) THEN TrimStart(Tail(text)) ELSE text

RECURSIVE TrimEnd(_)
TrimEnd(text) ==
  IF text # << >> /\ IsSpace(Last(text))
    THEN TrimEnd(SubSeq(text, 1, Len(text) - 1)) ELSE text

Trim(text) == TrimEnd(TrimStart(text))

\* What the history keeps of an interim result handled for session s: the
\* length of its text, the marks outstanding, the 'speech' events delivered
\* and the fragments generated up to then.
Heard(s, text) ==
  [sess |-> s, len |-> Len(text), outstanding |-> Len(marks[s]),
   at |-> Len(arrivals), nextIdx |-> partialResponseIndex[s]]

\* transcriptionService.on('utterance', ...): the current revision logs the
\* interim text and does nothing else.
Utterance(s, text) ==
  /\ Running
  /\ wired[s]
  /\ budget["utter"] > 0
  /\ budget' = Use("utter")
  /\ heard' = Append(heard, Heard(s, text))
  /\ UNCHANGED << wsState, connection, startAwait, activeConnections, wsOut,
                  sessVars, nextMark, errorLog, processExit, arrivals, ttsFailed, stops, hist,
                  finalResult, speechFinal, dgLog, cfgVars >>

\* `text?.length > 5` in the superseded revision's listener
InterruptThreshold == 5

\* The 'utterance' listener of the superseded revision (lines 642-650), in
\* the place of the current one: with marks outstanding and a text longer
\* than the threshold it sends `clear` on the websocket, and nothing else.
\* (getStreamSid, which it calls, is not a method of the StreamService of
\* streamService.ts; it is taken to return the stream's id.)
UtteranceR2(s, text) ==
  /\ Running
  /\ wired[s]
  /\ budget["utter"] > 0
  /\ budget' = Use("utter")
  /\ heard' = Append(heard, Heard(s, text))
  /\ wsOut' = [wsOut EXCEPT ![sessWs[s]] =
                 IF /\ Len(marks[s]) > 0
                    /\ Len(text) > InterruptThreshold
                    /\ wsState[sessWs[s]] = "open"
                   THEN Append(@, Frame("clear", 0))
                   ELSE @]
  /\ UNCHANGED << wsState, connection, startAwait, activeConnections,
                  sessVars, nextMark, errorLog, processExit, arrivals, ttsFailed, stops, hist,
                  finalResult, speechFinal, dgLog, cfgVars >>

\* the 'transcription' listener surviving cleanupConnection
TranscriptionNeverRemoved(s, text) ==
  /\ Running
  /\ s <= nSess
  /\ budget["trans"] > 0
  /\ budget' = Use("trans")
  /\ hist' = [hist EXCEPT !.finals =
                Append(@, [sess |-> s, len |-> Len(Trim(text)),
                           cleaned |-> \E i \in DOMAIN stops : stops[i].sess = s])]
  /\ IF Trim(text) # << >>
       THEN /\ transcriptionsReceived' = [transcriptionsReceived EXCEPT ![s] = @ + 1]
            /\ gptStreams' = [gptStreams EXCEPT ![s] =
                                @ \cup { NewStream(interactionCount[s]) }]
            /\ interactionCount' = [interactionCount EXCEPT ![s] = @ + 1]
            /\ userContext' = [userContext EXCEPT ![s] = Append(@, Message("user", text))]
       ELSE UNCHANGED << transcriptionsReceived, gptStreams, interactionCount,
                         userContext >>
  /\ UNCHANGED << wsState, connection, startAwait, activeConnections, wsOut,
                  nSess, sessWs, wired, expectedAudioIndex, audioBuffer, marks,
                  greetingTimer, partialResponseIndex, nextMark, errorLog,
                  processExit, arrivals, ttsFailed, heard, finalResult, speechFinal, dgLog, cfgVars, stops >>

\* A listener whose completion() starts every reply at index 0 again.
TranscriptionResetsIndex(s, text) ==
  /\ Running
  /\ s <= nSess
  /\ budget["trans"] > 0
  /\ budget' = Use("trans")
  /\ hist' = [hist EXCEPT !.finals =
                Append(@, [sess |-> s, len |-> Len(Trim(text)),
                           cleaned |-> \E i \in DOMAIN stops : stops[i].sess = s])]
  /\ IF wired[s] /\ Trim(text) # << >>
       THEN /\ transcriptionsReceived' = [transcriptionsReceived EXCEPT ![s] = @ + 1]
            /\ gptStreams' = [gptStreams EXCEPT ![s] =
                                @ \cup { NewStream(interactionCount[s]) }]
            /\ interactionCount' = [interactionCount EXCEPT ![s] = @ + 1]
            /\ userContext' = [userContext EXCEPT ![s] = Append(@, Message("user", text))]
            /\ partialResponseIndex' = [partialResponseIndex EXCEPT ![s] = 0]
       ELSE UNCHANGED << transcriptionsReceived, gptStreams, interactionCount,
                         partialResponseIndex, userContext >>
  /\ UNCHANGED << wsState, connection, startAwait, activeConnections, wsOut,
                  nSess, sessWs, wired, expectedAudioIndex, audioBuffer, marks,
                  greetingTimer, nextMark, errorLog,
                  processExit, arrivals, ttsFailed, heard, finalResult, speechFinal, dgLog, cfgVars, stops >>

\* A 'transcription' event of the TranscriptionService of session s.  With
\* the manager's listener in place, a non-blank final text starts
\* gptService.completion(text, interactionCount), which runs up to its
\* `await` of the stream, and the interaction counter is incremented; once
\* cleanupConnection has removed the listener the event reaches nobody.
Transcription(s, text) ==
  /\ Running
  /\ s <= nSess
  /\ budget["trans"] > 0
  /\ budget' = Use("trans")
  /\ hist' = [hist EXCEPT !.finals =
                Append(@, [sess |-> s, len |-> Len(Trim(text)),
                           cleaned |-> \E i \in DOMAIN stops : stops[i].sess = s])]
  /\ IF wired[s] /\ Trim(text) # << >>
       THEN /\ transcriptionsReceived' = [transcriptionsReceived EXCEPT ![s] = @ + 1]
            /\ gptStreams' = [gptStreams EXCEPT ![s] =
                                @ \cup { NewStream(interactionCount[s]) }]
            /\ interactionCount' = [interactionCount EXCEPT ![s] = @ + 1]
            /\ userContext' = [userContext EXCEPT ![s] = Append(@, Message("user", text))]
       ELSE UNCHANGED << transcriptionsReceived, gptStreams, interactionCount,
                         userContext >>
  /\ UNCHANGED << wsState, connection, startAwait, activeConnections, wsOut,
                  nSess, sessWs, wired, expectedAudioIndex, audioBuffer, marks,
                  greetingTimer, partialResponseIndex, nextMark, errorLog,
                  processExit, arrivals, ttsFailed, heard, finalResult, speechFinal, dgLog, cfgVars, stops >>

(***************************************************************************)
(* TranscriptionService: the handler of the recognizer's Transcript events *)
(*   "UtteranceEnd": an event of type UtteranceEnd;                        *)
(*   "final":        is_final with a non-blank transcript, not speech_final;*)
(*   "speechFinal":  is_final and speech_final with a non-blank transcript;*)
(*   "interim":      a result that is not is_final;                        *)
(*   "blankFinal":   is_final with an empty transcript, which the handler  *)
(*                   treats as an interim result.                          *)
(* The n-th event handled carries the transcript "n", so that the pieces   *)
(* of text can be told apart.                                              *)
(***************************************************************************)
ResultKinds == {"UtteranceEnd", "final", "speechFinal", "interim", "blankFinal"}

\* alternatives[0].transcript of the n-th event
ResultText(kind, n) ==
  IF kind \in {"UtteranceEnd", "blankFinal"} THEN << >> ELSE << ToString(n) >>

\* transcriptionService.on('transcription', ...) called by emit: what
\* Transcription does with the text.
onTranscription(s, text) ==
  /\ hist' = [hist EXCEPT !.finals =
                Append(@, [sess |-> s, len |-> Len(Trim(text)),
                           cleaned |-> \E i \in DOMAIN stops : stops[i].sess = s])]
  /\ IF wired[s] /\ Trim(text) # << >>
       THEN /\ transcriptionsReceived' = [transcriptionsReceived EXCEPT ![s] = @ + 1]
            /\ gptStreams' = [gptStreams EXCEPT ![s] =
                                @ \cup { NewStream(interactionCount[s]) }]
            /\ interactionCount' = [interactionCount EXCEPT ![s] = @ + 1]
            /\ userContext' = [userContext EXCEPT ![s] = Append(@, Message("user", text))]
       ELSE UNCHANGED << transcriptionsReceived, gptStreams, interactionCount,
                         userContext >>

\* A handler that emits on every UtteranceEnd, whatever speechFinal is.
DgTranscriptIgnoresFlag(s, kind) ==
  /\ Running
  /\ s \in hist.sttOpened
  /\ budget["dg"] > 0
  /\ budget' = Use("dg")
  /\ LET text == ResultText(kind, Len(dgLog) + 1)
         grown == finalResult[s] \o << " " >> \o text
         out == CASE kind = "UtteranceEnd" ->
                       IF TRUE THEN "transcription" ELSE "none"
                  [] kind = "speechFinal" -> "transcription"
                  [] kind = "final" -> "none"
                  [] OTHER -> "utterance"
         sent == CASE kind = "UtteranceEnd" /\ out = "transcription" -> finalResult[s]
                   [] kind = "speechFinal" -> grown
                   [] out = "utterance" -> text
                   [] OTHER -> << >>
     IN  /\ finalResult' = [finalResult EXCEPT ![s] =
                              CASE kind = "final" -> grown
                                [] kind = "speechFinal" -> << >>
                                [] OTHER -> @]
         /\ speechFinal' = [speechFinal EXCEPT ![s] =
                              CASE kind = "final" -> FALSE
                                [] kind = "speechFinal" -> TRUE
                                [] OTHER -> @]
         /\ IF out = "transcription"
              THEN onTranscription(s, sent)
              ELSE UNCHANGED << hist, transcriptionsReceived, gptStreams,
                                interactionCount, userContext >>
         /\ heard' = IF out = "utterance" /\ wired[s]
                       THEN Append(heard, Heard(s, sent)) ELSE heard
         /\ dgLog' = Append(dgLog, [sess |-> s, kind |-> kind, text |-> text,
                                    out |-> out, sent |-> sent])
  /\ UNCHANGED << wsState, connection, startAwait, activeConnections, wsOut,
                  nSess, sessWs, wired, expectedAudioIndex, audioBuffer, marks,
                  greetingTimer, partialResponseIndex, nextMark, errorLog,
                  processExit, arrivals, ttsFailed, stops, cfgVars >>

\* One Transcript event of the recognizer connection of session s, with the
\* listeners the emitted event calls.
DgTranscript(s, kind) ==
  /\ Running
  /\ s \in hist.sttOpened
  /\ budget["dg"] > 0
  /\ budget' = Use("dg")
  /\ LET text == ResultText(kind, Len(dgLog) + 1)
         grown == finalResult[s] \o << " " >> \o text
         out == CASE kind = "UtteranceEnd" ->
                       IF ~speechFinal[s] THEN "transcription" ELSE "none"
                  [] kind = "speechFinal" -> "transcription"
                  [] kind = "final" -> "none"
                  [] OTHER -> "utterance"
         sent == CASE kind = "UtteranceEnd" /\ out = "transcription" -> finalResult[s]
                   [] kind = "speechFinal" -> grown
                   [] out = "utterance" -> text
                   [] OTHER -> << >>
     IN  /\ finalResult' = [finalResult EXCEPT ![s] =
                              CASE kind = "final" -> grown
                                [] kind = "speechFinal" -> << >>
                                [] OTHER -> @]
         /\ speechFinal' = [speechFinal EXCEPT ![s] =
                              CASE kind = "final" -> FALSE
                                [] kind = "speechFinal" -> TRUE
                                [] OTHER -> @]
         /\ IF out = "transcription"
              THEN onTranscription(s, sent)
              ELSE UNCHANGED << hist, transcriptionsReceived, gptStreams,
                                interactionCount, userContext >>
         /\ heard' = IF out = "utterance" /\ wired[s]
                       THEN Append(heard, Heard(s, sent)) ELSE heard
         /\ dgLog' = Append(dgLog, [sess |-> s, kind |-> kind, text |-> text,
                                    out |-> out, sent |-> sent])
  /\ UNCHANGED << wsState, connection, startAwait, activeConnections, wsOut,
                  nSess, sessWs, wired, expectedAudioIndex, audioBuffer, marks,
                  greetingTimer, partialResponseIndex, nextMark, errorLog,
                  processExit, arrivals, ttsFailed, stops, cfgVars >>

\* gptService.on('gptreply', ...): ttsService.generate(gptReply, icount);
\* with the listener removed the event reaches nobody.
EmitGptReply(s, index) ==
  IF wired[s]
    THEN TtsGenerate(s, index)
    ELSE UNCHANGED << ttsFailed, errorLog, processExit >>

(***************************************************************************)
(* GptService.completion: one chunk of one stream.                         *)
(*   "text":   content without a trailing bullet, the fragment grows;      *)
(*   "bullet": content ending in the pause marker, the fragment is emitted *)
(*             with the current partialResponseIndex, which is incremented;*)
(*   "stop":   finish_reason 'stop' with no content, the fragment (empty   *)
(*             when a bullet came just before) is emitted likewise, and    *)
(*             the stream ends;                                            *)
(*   "error":  the call or the stream throws: the catch emits 'error',     *)
(*             which handleError logs while the listener is in place and   *)
(*             which is an unhandled rejection otherwise.                  *)
(***************************************************************************)
ChunkKinds == {"text", "bullet", "stop", "error"}

\* chunk.choices[0].delta.content of a chunk of each kind
Content(kind) ==
  CASE kind = "text" -> << "text" >>
    [] kind = "bullet" -> << "bullet" >>
    [] OTHER -> << >>

\* A completion() that numbers its fragments with a counter of its own.
GptChunkIndexPerStream(s, kind) ==
  /\ Running
  /\ budget["chunk"] > 0
  /\ budget' = Use("chunk")
  /\ \E st \in gptStreams[s] :
       CASE kind = "text" ->
              /\ gptStreams' = [gptStreams EXCEPT ![s] =
                                  (@ \ {st}) \cup
                                  { [st EXCEPT !.partialEmpty = FALSE,
                                               !.partial = @ \o Content(kind),
                                               !.complete = @ \o Content(kind)] }]
              /\ UNCHANGED << partialResponseIndex, ttsFailed, errorLog,
                              processExit, hist, userContext >>
         [] kind = "error" ->
              /\ gptStreams' = [gptStreams EXCEPT ![s] = @ \ {st}]
              /\ hist' = [hist EXCEPT !.failedGen =
                            @ \cup { [sess |-> s, icount |-> st.icount] }]
              /\ IF wired[s]
                   THEN /\ errorLog' = [errorLog EXCEPT ![s] = @ + 1]
                        /\ UNCHANGED processExit
                   ELSE /\ processExit' = TRUE
                        /\ UNCHANGED errorLog
              /\ UNCHANGED << partialResponseIndex, ttsFailed, userContext >>
         [] OTHER ->
              /\ EmitGptReply(s, Cardinality({ j \in DOMAIN hist.replies :
                                   /\ hist.replies[j].sess = s
                                   /\ hist.replies[j].icount = st.icount }))
              /\ hist' = [hist EXCEPT !.replies =
                            Append(@, [sess |-> s, index |-> Cardinality({ j \in DOMAIN hist.replies :
                                   /\ hist.replies[j].sess = s
                                   /\ hist.replies[j].icount = st.icount }),
                                       icount |-> st.icount, at |-> Len(arrivals),
                                       text |-> st.partial \o Content(kind)])]
              /\ partialResponseIndex' = [partialResponseIndex EXCEPT ![s] = @ + 1]
              /\ gptStreams' = [gptStreams EXCEPT ![s] =
                                  IF kind = "stop" THEN @ \ {st}
                                  ELSE (@ \ {st}) \cup
                                       { [st EXCEPT !.partialEmpty = TRUE,
                                                    !.partial = << >>,
                                                    !.complete = @ \o Content(kind)] }]
              /\ userContext' =
                   IF kind = "stop"
                     THEN [userContext EXCEPT ![s] =
                             Append(@, Message("assistant", st.complete \o Content(kind)))]
                     ELSE userContext
  /\ UNCHANGED << wsState, connection, startAwait, activeConnections, wsOut,
                  nSess, sessWs, wired, expectedAudioIndex, audioBuffer, marks,
                  interactionCount, transcriptionsReceived, greetingTimer,
                  nextMark, arrivals, heard, finalResult, speechFinal, dgLog, cfgVars, stops >>

\* A completion() that emits its fragments without `partialResponseIndex++`.
GptChunkKeepsIndex(s, kind) ==
  /\ Running
  /\ budget["chunk"] > 0
  /\ budget' = Use("chunk")
  /\ \E st \in gptStreams[s] :
       CASE kind = "text" ->
              /\ gptStreams' = [gptStreams EXCEPT ![s] =
                                  (@ \ {st}) \cup
                                  { [st EXCEPT !.partialEmpty = FALSE,
                                               !.partial = @ \o Content(kind),
                                               !.complete = @ \o Content(kind)] }]
              /\ UNCHANGED << partialResponseIndex, ttsFailed, errorLog,
                              processExit, hist, userContext >>
         [] kind = "error" ->
              /\ gptStreams' = [gptStreams EXCEPT ![s] = @ \ {st}]
              /\ hist' = [hist EXCEPT !.failedGen =
                            @ \cup { [sess |-> s, icount |-> st.icount] }]
              /\ IF wired[s]
                   THEN /\ errorLog' = [errorLog EXCEPT ![s] = @ + 1]
                        /\ UNCHANGED processExit
                   ELSE /\ processExit' = TRUE
                        /\ UNCHANGED errorLog
              /\ UNCHANGED << partialResponseIndex, ttsFailed, userContext >>
         [] OTHER ->
              /\ EmitGptReply(s, partialResponseIndex[s])
              /\ hist' = [hist EXCEPT !.replies =
                            Append(@, [sess |-> s, index |-> partialResponseIndex[s],
                                       icount |-> st.icount, at |-> Len(arrivals),
                                       text |-> st.partial \o Content(kind)])]
              /\ UNCHANGED partialResponseIndex
              /\ gptStreams' = [gptStreams EXCEPT ![s] =
                                  IF kind = "stop" THEN @ \ {st}
                                  ELSE (@ \ {st}) \cup
                                       { [st EXCEPT !.partialEmpty = TRUE,
                                                    !.partial = << >>,
                                                    !.complete = @ \o Content(kind)] }]
              /\ userContext' =
                   IF kind = "stop"
                     THEN [userContext EXCEPT ![s] =
                             Append(@, Message("assistant", st.complete \o Content(kind)))]
                     ELSE userContext
  /\ UNCHANGED << wsState, connection, startAwait, activeConnections, wsOut,
                  nSess, sessWs, wired, expectedAudioIndex, audioBuffer, marks,
                  interactionCount, transcriptionsReceived, greetingTimer,
                  nextMark, arrivals, heard, finalResult, speechFinal, dgLog, cfgVars, stops >>

\* A completion() that stores partialResponse, not completeResponse.
GptChunkKeepsLastFragment(s, kind) ==
  /\ Running
  /\ budget["chunk"] > 0
  /\ budget' = Use("chunk")
  /\ \E st \in gptStreams[s] :
       CASE kind = "text" ->
              /\ gptStreams' = [gptStreams EXCEPT ![s] =
                                  (@ \ {st}) \cup
                                  { [st EXCEPT !.partialEmpty = FALSE,
                                               !.partial = @ \o Content(kind),
                                               !.complete = @ \o Content(kind)] }]
              /\ UNCHANGED << partialResponseIndex, ttsFailed, errorLog,
                              processExit, hist, userContext >>
         [] kind = "error" ->
              /\ gptStreams' = [gptStreams EXCEPT ![s] = @ \ {st}]
              /\ hist' = [hist EXCEPT !.failedGen =
                            @ \cup { [sess |-> s, icount |-> st.icount] }]
              /\ IF wired[s]
                   THEN /\ errorLog' = [errorLog EXCEPT ![s] = @ + 1]
                        /\ UNCHANGED processExit
                   ELSE /\ processExit' = TRUE
                        /\ UNCHANGED errorLog
              /\ UNCHANGED << partialResponseIndex, ttsFailed, userContext >>
         [] OTHER ->
              /\ EmitGptReply(s, partialResponseIndex[s])
              /\ hist' = [hist EXCEPT !.replies =
                            Append(@, [sess |-> s, index |-> partialResponseIndex[s],
                                       icount |-> st.icount, at |-> Len(arrivals),
                                       text |-> st.partial \o Content(kind)])]
              /\ partialResponseIndex' = [partialResponseIndex EXCEPT ![s] = @ + 1]
              /\ gptStreams' = [gptStreams EXCEPT ![s] =
                                  IF kind = "stop" THEN @ \ {st}
                                  ELSE (@ \ {st}) \cup
                                       { [st EXCEPT !.partialEmpty = TRUE,
                                                    !.partial = << >>,
                                                    !.complete = @ \o Content(kind)] }]
              /\ userContext' =
                   IF kind = "stop"
                     THEN [userContext EXCEPT ![s] =
                             Append(@, Message("assistant", st.partial \o Content(kind)))]
                     ELSE userContext
  /\ UNCHANGED << wsState, connection, startAwait, activeConnections, wsOut,
                  nSess, sessWs, wired, expectedAudioIndex, audioBuffer, marks,
                  interactionCount, transcriptionsReceived, greetingTimer,
                  nextMark, arrivals, heard, finalResult, speechFinal, dgLog, cfgVars, stops >>

GptChunk(s, kind) ==
  /\ Running
  /\ budget["chunk"] > 0
  /\ budget' = Use("chunk")
  /\ \E st \in gptStreams[s] :
       CASE kind = "text" ->
              /\ gptStreams' = [gptStreams EXCEPT ![s] =
                                  (@ \ {st}) \cup
                                  { [st EXCEPT !.partialEmpty = FALSE,
                                               !.partial = @ \o Content(kind),
                                               !.complete = @ \o Content(kind)] }]
              /\ UNCHANGED << partialResponseIndex, ttsFailed, errorLog,
                              processExit, hist, userContext >>
         [] kind = "error" ->
              /\ gptStreams' = [gptStreams EXCEPT ![s] = @ \ {st}]
              /\ hist' = [hist EXCEPT !.failedGen =
                            @ \cup { [sess |-> s, icount |-> st.icount] }]
              /\ IF wired[s]
                   THEN /\ errorLog' = [errorLog EXCEPT ![s] = @ + 1]
                        /\ UNCHANGED processExit
                   ELSE /\ processExit' = TRUE
                        /\ UNCHANGED errorLog
              /\ UNCHANGED << partialResponseIndex, ttsFailed, userContext >>
         [] OTHER ->
              /\ EmitGptReply(s, partialResponseIndex[s])
              /\ hist' = [hist EXCEPT !.replies =
                            Append(@, [sess |-> s, index |-> partialResponseIndex[s],
                                       icount |-> st.icount, at |-> Len(arrivals),
                                       text |-> st.partial \o Content(kind)])]
              /\ partialResponseIndex' = [partialResponseIndex EXCEPT ![s] = @ + 1]
              /\ gptStreams' = [gptStreams EXCEPT ![s] =
                                  IF kind = "stop" THEN @ \ {st}
                                  ELSE (@ \ {st}) \cup
                                       { [st EXCEPT !.partialEmpty = TRUE,
                                                    !.partial = << >>,
                                                    !.complete = @ \o Content(kind)] }]
              /\ userContext' =
                   IF kind = "stop"
                     THEN [userContext EXCEPT ![s] =
                             Append(@, Message("assistant", st.complete \o Content(kind)))]
                     ELSE userContext
  /\ UNCHANGED << wsState, connection, startAwait, activeConnections, wsOut,
                  nSess, sessWs, wired, expectedAudioIndex, audioBuffer, marks,
                  interactionCount, transcriptionsReceived, greetingTimer,
                  nextMark, arrivals, heard, finalResult, speechFinal, dgLog, cfgVars, stops >>

(***************************************************************************)
(* Specifications                                                          *)
(***************************************************************************)
\* The sequencer fed by any 'speech' events, within the life of a call.
InitSeq ==
  /\ Constructed
  /\ budget = [NoInput EXCEPT !["start"] = MaxStarts, !["stop"] = CallStops,
                              !["speech"] = MaxSpeech]

NextSeq ==
  \/ \E c \in ConnIds, p \in StartPhones : WsStart(c, p)
  \/ \E c \in ConnIds : StartResume(c)
  \/ \E s \in Sessions, i \in Indices \cup {NULL} : Speech(s, i)
  \/ \E c \in ConnIds : WsStop(c)

SpecSeq == InitSeq /\ [][NextSeq]_vars

\* One call from `start` to `stop` or close, the greeting timer included.
Init ==
  /\ Constructed
  /\ budget = [NoInput EXCEPT !["start"] = MaxStarts, !["stop"] = MaxStops,
                              !["speech"] = LifeSpeech, !["mark"] = MaxMarksIn]

Next ==
  \/ \E c \in ConnIds, p \in StartPhones : WsStart(c, p)
  \/ \E c \in ConnIds : StartResume(c)
  \/ \E s \in Sessions : GreetingTimer(s)
  \/ \E s \in Sessions, i \in Indices \cup {NULL} : Speech(s, i)
  \/ \E c \in ConnIds, n \in 0..nextMark : WsMark(c, n)
  \/ \E c \in ConnIds : WsStop(c)
  \/ \E c \in ConnIds : WsClose(c)

Spec == Init /\ [][Next]_vars

\* The same call on a websocket that may report errors.
InitErr ==
  /\ Constructed
  /\ budget = [NoInput EXCEPT !["start"] = MaxStarts, !["stop"] = MaxStops,
                              !["speech"] = LifeSpeech, !["mark"] = MaxMarksIn,
                              !["wserror"] = MaxWsErrors]

NextErr ==
  \/ \E c \in ConnIds, p \in StartPhones : WsStart(c, p)
  \/ \E c \in ConnIds : StartResume(c)
  \/ \E s \in Sessions : GreetingTimer(s)
  \/ \E s \in Sessions, i \in Indices \cup {NULL} : Speech(s, i)
  \/ \E c \in ConnIds, n \in 0..nextMark : WsMark(c, n)
  \/ \E c \in ConnIds : WsStop(c)
  \/ \E c \in ConnIds : WsClose(c)
  \/ \E c \in ConnIds : WsError(c)

SpecErr == InitErr /\ [][NextErr]_vars

\* The same call under the scheduling of the event loop: a timer that was
\* set fires, and a lookup that was awaited returns.
SpecLive ==
  /\ Init
  /\ [][Next]_vars
  /\ WF_vars(\E s \in Sessions : GreetingTimer(s))
  /\ WF_vars(\E c \in ConnIds : StartResume(c))

\* A call in which the caller speaks and the reply is generated.
InitTalk ==
  /\ Constructed
  /\ budget = [NoInput EXCEPT !["start"] = MaxStarts, !["speech"] = TalkSpeech,
                              !["mark"] = MaxMarksIn, !["utter"] = MaxUtter,
                              !["trans"] = MaxTrans, !["chunk"] = MaxChunks]

NextTalk ==
  \/ \E c \in ConnIds, p \in StartPhones : WsStart(c, p)
  \/ \E c \in ConnIds : StartResume(c)
  \/ \E s \in Sessions, i \in Indices \cup {NULL} : Speech(s, i)
  \/ \E c \in ConnIds, n \in 0..nextMark : WsMark(c, n)
  \/ \E s \in Sessions, x \in Texts : Utterance(s, x)
  \/ \E s \in Sessions, x \in FinalTexts : Transcription(s, x)
  \/ \E s \in Sessions, k \in ChunkKinds : GptChunk(s, k)

SpecTalk == InitTalk /\ [][NextTalk]_vars

\* A call in which the caller's final results are answered, from `start`
\* to `stop` and close and beyond.
InitCall ==
  /\ Constructed
  /\ budget = [NoInput EXCEPT !["start"] = MaxStarts, !["stop"] = CallStops,
                              !["trans"] = CallTrans, !["chunk"] = CallChunks]

NextCall ==
  \/ \E c \in ConnIds, p \in StartPhones : WsStart(c, p)
  \/ \E c \in ConnIds : StartResume(c)
  \/ \E s \in Sessions : GreetingTimer(s)
  \/ \E s \in Sessions, x \in FinalTexts : Transcription(s, x)
  \/ \E s \in Sessions, k \in ChunkKinds : GptChunk(s, k)
  \/ \E c \in ConnIds : WsStop(c)
  \/ \E c \in ConnIds : WsClose(c)

SpecCall == InitCall /\ [][NextCall]_vars

\* The same call, in which a start that awaits its configuration resumes, a
\* greeting timer that is set fires and a stream that is open delivers.
SpecCallLive ==
  /\ InitCall
  /\ [][NextCall]_vars
  /\ WF_vars(\E c \in ConnIds : StartResume(c))
  /\ WF_vars(\E s \in Sessions : GreetingTimer(s))
  /\ WF_vars(\E s \in Sessions, k \in ChunkKinds : GptChunk(s, k))

\* One call whose recognizer, synthesis and generation fail.
InitFail ==
  /\ Constructed
  /\ budget = [NoInput EXCEPT !["start"] = MaxStarts, !["stop"] = CallStops,
                              !["trans"] = MaxTrans, !["chunk"] = CallChunks,
                              !["stterror"] = MaxSttErrors]

NextFail ==
  \/ \E c \in ConnIds, p \in StartPhones : WsStart(c, p)
  \/ \E c \in ConnIds : StartResume(c)
  \/ \E s \in Sessions : GreetingTimer(s)
  \/ \E s \in Sessions, x \in FinalTexts : Transcription(s, x)
  \/ \E s \in Sessions, k \in ChunkKinds : GptChunk(s, k)
  \/ \E s \in Sessions : SttError(s)
  \/ \E c \in ConnIds : WsStop(c)
  \/ \E c \in ConnIds : WsClose(c)

SpecFail == InitFail /\ [][NextFail]_vars

\* The generator of one call: final texts and the chunks of their streams.
InitGen ==
  /\ Constructed
  /\ budget = [NoInput EXCEPT !["start"] = MaxStarts, !["stop"] = CallStops,
                              !["trans"] = GenTrans, !["chunk"] = GenChunks]

NextGen ==
  \/ \E c \in ConnIds : WsStart(c, "p1")
  \/ \E c \in ConnIds : StartResume(c)
  \/ \E s \in Sessions : Transcription(s, << " ", "h", "i" >>)
  \/ \E s \in Sessions, k \in ChunkKinds : GptChunk(s, k)
  \/ \E c \in ConnIds : WsStop(c)

SpecGen == InitGen /\ [][NextGen]_vars

\* The sequencer of one call fed with fragments, one of which may be missing.
InitStall ==
  /\ Constructed
  /\ budget = [NoInput EXCEPT !["start"] = MaxStarts, !["stop"] = CallStops,
                              !["speech"] = StallSpeech]

NextStall ==
  \/ \E c \in ConnIds : WsStart(c, "p1")
  \/ \E c \in ConnIds : StartResume(c)
  \/ \E s \in Sessions, i \in Indices : Speech(s, i)
  \/ \E c \in ConnIds : WsStop(c)

SpecStall == InitStall /\ [][NextStall]_vars

\* The `media` frames of one call.
InitFrames ==
  /\ Constructed
  /\ budget = [NoInput EXCEPT !["start"] = MaxStarts, !["stop"] = CallStops,
                              !["media"] = MaxMedia]

NextFrames ==
  \/ \E c \in ConnIds : WsStart(c, "p1")
  \/ \E c \in ConnIds : StartResume(c)
  \/ \E s \in Sessions : DgOpen(s)
  \/ \E c \in ConnIds : WsMedia(c)
  \/ \E c \in ConnIds : WsStop(c)
  \/ \E c \in ConnIds : WsClose(c)

SpecFrames == InitFrames /\ [][NextFrames]_vars

\* One call that receives malformed frames among the others.
InitMalformed ==
  /\ Constructed
  /\ budget = [NoInput EXCEPT !["start"] = MaxStarts, !["stop"] = CallStops,
                              !["speech"] = PairSpeech, !["media"] = MalMedia,
                              !["malformed"] = MaxMalformed]

NextMalformed ==
  \/ \E c \in ConnIds : WsStart(c, "p1")
  \/ \E c \in ConnIds : StartResume(c)
  \/ \E s \in Sessions : DgOpen(s)
  \/ \E c \in ConnIds : WsMedia(c)
  \/ \E c \in ConnIds, k \in MalformedKinds : WsMalformed(c, k)
  \/ \E s \in Sessions : Speech(s, NULL)
  \/ \E c \in ConnIds : WsStop(c)

SpecMalformed == InitMalformed /\ [][NextMalformed]_vars

\* Two calls at once, each on its own connection, both to the callee "p1".
InitPair ==
  /\ Constructed
  /\ budget = [NoInput EXCEPT !["start"] = Cardinality(PairConnIds),
                              !["stop"] = CallStops, !["speech"] = PairSpeech,
                              !["trans"] = MaxTrans, !["chunk"] = CallChunks]

NextPair ==
  \/ \E c \in PairConnIds : WsStart(c, "p1")
  \/ \E c \in PairConnIds : StartResume(c)
  \/ \E s \in Sessions, i \in {NULL, 0} : Speech(s, i)
  \/ \E s \in Sessions : Transcription(s, << " ", "h", "i" >>)
  \/ \E s \in Sessions, k \in ChunkKinds : GptChunk(s, k)
  \/ \E c \in PairConnIds : WsStop(c)

SpecPair == InitPair /\ [][NextPair]_vars

\* The same call with the superseded revision's 'utterance' listener.
NextR2 ==
  \/ \E c \in ConnIds, p \in StartPhones : WsStart(c, p)
  \/ \E c \in ConnIds : StartResume(c)
  \/ \E s \in Sessions, i \in Indices \cup {NULL} : Speech(s, i)
  \/ \E c \in ConnIds, n \in 0..nextMark : WsMark(c, n)
  \/ \E s \in Sessions, x \in Texts : UtteranceR2(s, x)
  \/ \E s \in Sessions, x \in FinalTexts : Transcription(s, x)
  \/ \E s \in Sessions, k \in ChunkKinds : GptChunk(s, k)

SpecR2 == InitTalk /\ [][NextR2]_vars

(***************************************************************************)
(* What was delivered, read back from the histories                        *)
(***************************************************************************)
\* the media frames session s put on its websocket
MediaOf(s) ==
  SelectSeq(wsOut[sessWs[s]],
            LAMBDA f : f.event = "media" /\ arrivals[f.arg].sess = s)

\* the fragment indices of those frames, in the order sent (NULL: greeting)
SentAll(s) == [i \in 1..Len(MediaOf(s)) |-> arrivals[MediaOf(s)[i].arg].index]

\* the indexed ones among them
SentIdx(s) == SelectSeq(SentAll(s), LAMBDA i : i # NULL)

\* the indices of the indexed 'speech' events delivered to session s
ArrivedIdx(s) ==
  LET mine == SelectSeq(arrivals, LAMBDA a : a.sess = s /\ a.index # NULL)
  IN  [i \in 1..Len(mine) |-> mine[i].index]

Range(seq) == { seq[i] : i \in DOMAIN seq }
Count(seq, x) == Cardinality({ i \in DOMAIN seq : seq[i] = x })
Created == 1..nSess

(***************************************************************************)
(* C1: when the indexed fragments delivered to a session are the indices   *)
(* 0..N-1, each exactly once and in any order, the indexed frames it has   *)
(* sent are exactly 0,1,...,N-1 in that order.                             *)
(***************************************************************************)
IsPermutation(seq) ==
  /\ Range(seq) = 0..(Len(seq) - 1)
  /\ \A k \in Range(seq) : Count(seq, k) = 1

C1_Ordering ==
  \A s \in Created :
     IsPermutation(ArrivedIdx(s)) =>
        SentIdx(s) = [i \in 1..Len(ArrivedIdx(s)) |-> i - 1]

\* Scenario A: arrivals 0,2,1 were sent as 0,1,2
C1_Witness ==
  \E s \in Created : ArrivedIdx(s) = << 0, 2, 1 >> /\ SentIdx(s) = << 0, 1, 2 >>

(***************************************************************************)
(* C2: in every state the indexed frames a session has sent are strictly   *)
(* increasing by index, whatever was submitted (gaps, duplicates, stale    *)
(* indices, greetings in between).                                         *)
(***************************************************************************)
C2_StrictlyIncreasing ==
  \A s \in Created :
     \A i, j \in DOMAIN SentIdx(s) : i < j => SentIdx(s)[i] < SentIdx(s)[j]

\* a run with a re-submitted index and a greeting among at least two frames
C2_Witness ==
  \E s \in Created :
     /\ Len(SentIdx(s)) >= 2
     /\ \E k \in Indices : Count(ArrivedIdx(s), k) >= 2
     /\ NULL \in Range(SentAll(s))

(***************************************************************************)
(* C3: no index is ever sent twice by a session, however often and         *)
(* whenever it is submitted.                                               *)
(***************************************************************************)
C3_NoDoubleSend ==
  \A s \in Created : \A k \in Indices : Count(SentAll(s), k) <= 1

\* an index submitted twice while buffered and once more after it was sent
C3_Witness ==
  \E s \in Created : \E k \in Indices :
     /\ Count(ArrivedIdx(s), k) >= 3
     /\ Count(SentAll(s), k) = 1
     /\ Last(ArrivedIdx(s)) = k
     /\ ArrivedIdx(s)[1] = k
     /\ k # 0

(***************************************************************************)
(* C4: a 'speech' event whose index is null sends its frame (media, then   *)
(* a fresh mark) in that very step and leaves the cursor and the buffer    *)
(* as they were, whatever they hold.                                       *)
(***************************************************************************)
C4_ImmediateBypass ==
  [][ (/\ Len(arrivals') = Len(arrivals) + 1
       /\ Last(arrivals').index = NULL)
      => LET s == Last(arrivals').sess
         IN  /\ wsOut'[sessWs[s]] =
                  wsOut[sessWs[s]] \o << Frame("media", Len(arrivals')),
                                         Frame("mark", nextMark + 1) >>
             /\ expectedAudioIndex' = expectedAudioIndex
             /\ audioBuffer' = audioBuffer ]_vars

\* Scenario C: the greeting arrives after fragment 0 was sent and while a
\* later fragment waits in the buffer, and its frame is the last one sent
C4_Witness ==
  /\ arrivals # << >>
  /\ Last(arrivals).index = NULL
  /\ LET s == Last(arrivals).sess
     IN  /\ expectedAudioIndex[s] = 1
         /\ DOMAIN audioBuffer[s] = {2}
         /\ Len(wsOut[sessWs[s]]) = 4
         /\ wsOut[sessWs[s]][3] = Frame("media", Len(arrivals))
(***************************************************************************)
(* Interruptions.  An interim result is a barge-in when its text is longer *)
(* than the threshold while marks are outstanding.                         *)
(***************************************************************************)
BargeIn(h) == h.len > InterruptThreshold /\ h.outstanding > 0

\* the 'speech' event at position p is stale for the barge-in h: it carries
\* a fragment the generator had emitted before h and is delivered after h
Stale(h, p) ==
  /\ p > h.at
  /\ arrivals[p].sess = h.sess
  /\ arrivals[p].index # NULL
  /\ arrivals[p].index < h.nextIdx

MediaSent(c, p) == \E i \in DOMAIN wsOut[c] : wsOut[c][i] = Frame("media", p)

(***************************************************************************)
(* C5: after an interruption, no frame is ever sent for a fragment that    *)
(* was generated before the interruption and whose audio arrives after it. *)
(* Violated: neither the listener nor buffer() knows of interruptions, and *)
(* the stale fragment is sent as soon as its index is the expected one.    *)
(***************************************************************************)
C5_StaleDiscarded ==
  \A i \in DOMAIN heard :
     BargeIn(heard[i]) =>
        \A p \in DOMAIN arrivals :
           Stale(heard[i], p) => ~MediaSent(sessWs[heard[i].sess], p)

(***************************************************************************)
(* C6: a fragment whose synthesis failed is delivered to the sequencer     *)
(* all the same (with a placeholder audio), so that its index is not       *)
(* missing.  Violated: generate() emits 'error' and nothing else.          *)
(***************************************************************************)
C6_FailureDelivered ==
  \A f \in ttsFailed :
     f.index # NULL =>
        \E p \in DOMAIN arrivals : arrivals[p] = [sess |-> f.sess, index |-> f.index]

(***************************************************************************)
(* C7: handling an interim result sends `clear` if and only if it is a     *)
(* barge-in; otherwise nothing is sent.  Violated by the current revision, *)
(* whose 'utterance' listener sends nothing at all.                        *)
(***************************************************************************)
C7_ClearIffBargeIn ==
  [][ Len(heard') = Len(heard) + 1
      => LET h == Last(heard')
             c == sessWs[h.sess]
         IN  IF BargeIn(h)
               THEN wsOut'[c] = Append(wsOut[c], Frame("clear", 0))
               ELSE wsOut' = wsOut ]_vars

(***************************************************************************)
(* C8: the step that sends `clear` also empties the buffer, sets the       *)
(* cursor to 0 and empties the marks of the session.  Violated: the        *)
(* listener that sends `clear` changes nothing else, and StreamService     *)
(* .clear is called by cleanupConnection only.                             *)
(***************************************************************************)
C8_InterruptResets ==
  [][ \A c \in ConnIds :
        (/\ Len(wsOut'[c]) = Len(wsOut[c]) + 1
         /\ Last(wsOut'[c]).event = "clear")
        => LET s == Last(heard').sess
           IN  /\ audioBuffer'[s] = EmptyBuffer
               /\ expectedAudioIndex'[s] = 0
               /\ marks'[s] = << >> ]_vars

(***************************************************************************)
(* C9: a `stop` or a close handled while the handler holds its registered  *)
(* session unregisters it, removes its listeners and clears its            *)
(* StreamService; a `stop` or a close handled when no session is           *)
(* registered for the connection changes nothing of the sessions, of the   *)
(* registry or of what was sent.                                           *)
(***************************************************************************)
StopHandled(c) ==
  /\ Len(stops') = Len(stops) + 1
  /\ wsState[c] = "open"

StartFailed(c) ==
  /\ startAwait[c] # << >>
  /\ startAwait'[c] = Tail(startAwait[c])
  /\ ~getWebSocketConfigByPhone(Head(startAwait[c])).ok

C10_StartFailureCloses ==
  [][ \A c \in ConnIds :
        StartFailed(c) =>
          /\ nSess' = nSess
          /\ activeConnections' = activeConnections
          /\ wired' = wired
          /\ greetingTimer' = greetingTimer
          /\ wsOut' = wsOut
          /\ wsState'[c] = "closed" ]_vars

(***************************************************************************)
(* C11: the `start` handler resumed with a number whose configuration      *)
(* exists but is not active registers no session and schedules no          *)
(* greeting, as for an absent configuration.  Violated: the lookup finds   *)
(* the record by phone number alone and handleStreamStart never reads      *)
(* isActive, so the session is built, registered and greeted.              *)
(***************************************************************************)
StartInactive(c) ==
  /\ startAwait[c] # << >>
  /\ startAwait'[c] = Tail(startAwait[c])
  /\ getWebSocketConfigByPhone(Head(startAwait[c])).ok
  /\ ~getWebSocketConfigByPhone(Head(startAwait[c])).isActive

C11_InactiveIsFatal ==
  [][ \A c \in ConnIds :
        StartInactive(c) =>
          /\ nSess' = nSess
          /\ activeConnections' = activeConnections
          /\ wired' = wired
          /\ greetingTimer' = greetingTimer ]_vars

(***************************************************************************)
(* A session is ACTIVE from the completion of its `start` until a `stop`   *)
(* or a close has cleaned it up.                                           *)
(***************************************************************************)
Active(s) == s \in Created /\ ~\E i \in DOMAIN stops : stops[i].sess = s

(***************************************************************************)
(* C12: a final recognition result of session s starts a generation if    *)
(* and only if s is ACTIVE (and the text is not blank); the generation     *)
(* gets the current interaction counter, which is then incremented by      *)
(* one; a result of a session that was cleaned up starts nothing and       *)
(* changes no counter.                                                     *)
(***************************************************************************)
C12_ForwardOnlyActive ==
  [][ Len(hist'.finals) = Len(hist.finals) + 1
      => LET h == Last(hist'.finals)
             s == h.sess
         IN  IF Active(s) /\ h.len > 0
               THEN /\ interactionCount' =
                         [interactionCount EXCEPT ![s] = interactionCount[s] + 1]
                    /\ gptStreams' =
                         [gptStreams EXCEPT ![s] =
                            @ \cup { NewStream(interactionCount[s]) }]
               ELSE /\ interactionCount' = interactionCount
                    /\ gptStreams' = gptStreams
                    /\ transcriptionsReceived' = transcriptionsReceived
                    /\ partialResponseIndex' = partialResponseIndex ]_vars

\* a result was forwarded with the number 0 while the session was ACTIVE,
\* and the next one came after the session was cleaned up and started
\* nothing
C12_Witness ==
  /\ Len(hist.finals) = 2
  /\ \A i \in 1..2 : hist.finals[i].sess = 1 /\ hist.finals[i].len > 0
  /\ ~hist.finals[1].cleaned /\ hist.finals[2].cleaned
  /\ interactionCount[1] = 1
  /\ { st.icount : st \in gptStreams[1] } = {0}

(***************************************************************************)
(* C13: for an ACTIVE session held by its connection's handler, on an open *)
(* websocket, connection.marks holds exactly the labels minted by the      *)
(* frames the session sent, less those named by the `mark` messages        *)
(* handled, each once.                                                     *)
(***************************************************************************)
\* the labels of the mark frames that follow a media frame of session s
Minted(s) ==
  LET out == wsOut[sessWs[s]]
  IN  { out[i].arg : i \in { j \in 2..Len(out) :
                                /\ out[j].event = "mark"
                                /\ out[j - 1].event = "media"
                                /\ arrivals[out[j - 1].arg].sess = s } }

Held(s) ==
  /\ Active(s)
  /\ connection[sessWs[s]] = s
  /\ wsState[sessWs[s]] = "open"

C13_Outstanding ==
  \A s \in Created :
     Held(s) =>
        /\ Range(marks[s]) = Minted(s) \ hist.reported
        /\ \A m \in Range(marks[s]) : Count(marks[s], m) = 1

\* two frames were sent, the first one's mark came back, and a mark that
\* names no outstanding label would change nothing
C13_Witness ==
  \E s \in Created :
     /\ Held(s)
     /\ Cardinality(Minted(s)) = 2
     /\ Cardinality(Minted(s) \cap hist.reported) = 1
     /\ Len(marks[s]) = 1

(***************************************************************************)
(* C14: whatever a step puts on a websocket is a run of pairs, a media     *)
(* frame followed at once by a mark frame; the label of each mark is new   *)
(* (no mark frame sent before carries it, nor does another pair of the     *)
(* run) and is pushed on the marks of the session that sent the pair.      *)
(***************************************************************************)
MarkLabels(out) == { out[i].arg : i \in { j \in DOMAIN out : out[j].event = "mark" } }

C14_MediaThenFreshMark ==
  [][ \A c \in ConnIds :
        wsOut'[c] # wsOut[c] =>
          \E k \in 1..(MaxIdx + 2) :
             /\ Len(wsOut'[c]) = Len(wsOut[c]) + 2 * k
             /\ SubSeq(wsOut'[c], 1, Len(wsOut[c])) = wsOut[c]
             /\ \A j \in 1..k :
                  LET media == wsOut'[c][Len(wsOut[c]) + 2 * j - 1]
                      mark == wsOut'[c][Len(wsOut[c]) + 2 * j]
                  IN  /\ media.event = "media"
                      /\ mark.event = "mark"
                      /\ mark.arg \notin MarkLabels(wsOut[c])
                      /\ \A i \in 1..k :
                            i # j => wsOut'[c][Len(wsOut[c]) + 2 * i].arg # mark.arg
                      /\ \E s \in Created :
                            /\ arrivals'[media.arg].sess = s
                            /\ Count(marks'[s], mark.arg) = 1
                            /\ Count(marks[s], mark.arg) = 0 ]_vars

\* fragment 1 waited in the buffer; fragment 0 arrived and both pairs went
\* out in one call of buffer()
C14_Witness ==
  /\ ArrivedIdx(1) = << 1, 0 >>
  /\ wsOut[1] = << Frame("media", 2), Frame("mark", 1),
                   Frame("media", 1), Frame("mark", 2) >>
  /\ marks[1] = << 1, 2 >>

(***************************************************************************)
(* C15: once a start has scheduled the greeting of a session, the          *)
(* greeting's frame is eventually put on the websocket, unless the session *)
(* is cleaned up or its websocket closed first.  Violated: the timer calls *)
(* generate() with the reply object, generate() ends in 'error', and no    *)
(* 'speech' event ever follows from it.                                    *)
(***************************************************************************)
GreetingSent(s) ==
  \E p \in DOMAIN arrivals :
     /\ arrivals[p] = [sess |-> s, index |-> NULL]
     /\ MediaSent(sessWs[s], p)

C15_GreetingEventuallySent ==
  \A s \in Sessions :
     (greetingTimer[s] /\ wired[s])
        ~> (GreetingSent(s) \/ ~wired[s] \/ wsState[sessWs[s]] = "closed")

(***************************************************************************)
(* C16: once the websocket of a connection has reported an error and has   *)
(* closed, and no `start` handler of the connection is still suspended, no *)
(* session of the connection is registered or wired.  Violated: the        *)
(* 'error' listener only logs, the teardown is left to the close, and a    *)
(* close handled while the start awaits its lookup tears nothing down.     *)
(***************************************************************************)
C16_ErrorTearsDown ==
  \A c \in ConnIds :
     (c \in hist.wsErrors /\ wsState[c] = "closed" /\ startAwait[c] = << >>)
        => /\ activeConnections[c] = NoSess
           /\ \A s \in Created : sessWs[s] = c => ~wired[s]

(***************************************************************************)
(* C17: no frame is sent to the caller for a fragment of a generation that *)
(* failed (the interaction is abandoned, no partial reply is sent).        *)
(* Violated: each fragment is handed to the synthesis when its bullet      *)
(* arrives, and its audio is sent whenever it comes; a failure of the      *)
(* stream later on takes nothing back.                                     *)
(***************************************************************************)
C17_NoPartialReply ==
  \A g \in hist.failedGen :
     \A i \in DOMAIN hist.replies :
        (hist.replies[i].sess = g.sess /\ hist.replies[i].icount = g.icount)
           => \A p \in DOMAIN arrivals :
                 (/\ p > hist.replies[i].at
                  /\ arrivals[p] = [sess |-> g.sess, index |-> hist.replies[i].index])
                    => ~MediaSent(sessWs[g.sess], p)

(***************************************************************************)
(* C18: no two sessions share mutable state.  What a connection's handler  *)
(* holds and what the sessions built on the connection hold is the state   *)
(* of one call.  Every step changes the state of, and sends frames on, at  *)
(* most one call; a 'speech' event, a final text and a reply fragment of   *)
(* session s leave every call but the one of s untouched.                  *)
(***************************************************************************)
SessState(s) ==
  << wired[s], expectedAudioIndex[s], audioBuffer[s], marks[s],
     interactionCount[s], transcriptionsReceived[s], greetingTimer[s],
     partialResponseIndex[s], gptStreams[s], userContext[s], errorLog[s] >>

ConnState(c) ==
  << wsState[c], connection[c], startAwait[c], activeConnections[c], wsOut[c] >>

Touched(c) ==
  \/ ConnState(c)' # ConnState(c)
  \/ \E s \in Created : sessWs[s] = c /\ SessState(s)' # SessState(s)

OnlyCallOf(s) == \A c \in PairConnIds : c # sessWs[s] => ~Touched(c)

C18_NoSharedState ==
  [][ /\ \A c1, c2 \in PairConnIds : c1 # c2 => ~(Touched(c1) /\ Touched(c2))
      /\ Len(arrivals') > Len(arrivals) => OnlyCallOf(Last(arrivals').sess)
      /\ Len(hist'.finals) > Len(hist.finals) => OnlyCallOf(Last(hist'.finals).sess)
      /\ Len(hist'.replies) > Len(hist.replies)
           => OnlyCallOf(Last(hist'.replies).sess)
      /\ Len(stops') > Len(stops) /\ Last(stops').sess # NoSess
           => OnlyCallOf(Last(stops').sess) ]_vars

\* two calls run side by side: one has sent audio, the other has handled a
\* final text and has been sent nothing
C18_Witness ==
  \E a, b \in Created :
    /\ sessWs[a] # sessWs[b]
    /\ wired[a] /\ activeConnections[sessWs[a]] = a
    /\ wired[b] /\ activeConnections[sessWs[b]] = b
    /\ wsOut[sessWs[a]] # << >> /\ interactionCount[a] = 0
    /\ wsOut[sessWs[b]] = << >> /\ interactionCount[b] = 1


(***************************************************************************)
(* C19: a recognition, synthesis or generation error does not terminate    *)
(* the session.  A step in which a service of a session with its listeners *)
(* in place reports an error leaves the listeners, the registry, the       *)
(* handler's session and the websocket as they were and the process        *)
(* running, and logs the synthesis and generation errors; listeners are    *)
(* removed only by a step that handles a stop or a close.                  *)
(***************************************************************************)
SynthesisError(s) == \E f \in ttsFailed' \ ttsFailed : f.sess = s
GenerationError(s) == \E f \in hist'.failedGen \ hist.failedGen : f.sess = s
RecognitionError(s) == s \in hist'.sttErrors \ hist.sttErrors

C19_ErrorsDoNotTerminate ==
  [][ \A s \in Created :
        /\ (wired[s] /\ (SynthesisError(s) \/ GenerationError(s)
                                           \/ RecognitionError(s)))
             => /\ wired'[s]
                /\ activeConnections' = activeConnections
                /\ connection' = connection
                /\ wsState' = wsState
                /\ ~processExit'
                /\ (SynthesisError(s) \/ GenerationError(s))
                     => errorLog'[s] = errorLog[s] + 1
        /\ (wired[s] /\ ~wired'[s])
             => /\ Len(stops') = Len(stops) + 1
                /\ Last(stops').sess = s ]_vars

\* the three kinds of error have been reported for a session that is still
\* wired and registered on its open websocket
C19_Witness ==
  \E s \in Created :
    /\ \E f \in ttsFailed : f.sess = s
    /\ \E f \in hist.failedGen : f.sess = s
    /\ s \in hist.sttErrors
    /\ errorLog[s] >= 2
    /\ wired[s] /\ activeConnections[sessWs[s]] = s
    /\ connection[sessWs[s]] = s /\ wsState[sessWs[s]] = "open"
    /\ ~processExit


(***************************************************************************)
(* C20: the buffer of a session's StreamService holds no index less than   *)
(* or equal to expectedAudioIndex.  Stated for the sessions whose 'speech' *)
(* events carried each index at most once, as the generator numbers them.  *)
(***************************************************************************)
EachIndexOnce(s) ==
  \A i, j \in DOMAIN arrivals :
    (arrivals[i].sess = s /\ arrivals[j].sess = s /\ i # j
       /\ arrivals[i].index # NULL)
      => arrivals[i].index # arrivals[j].index

C20_BufferAboveCursor ==
  \A s \in Created :
    EachIndexOnce(s)
      => \A i \in DOMAIN audioBuffer[s] : i > expectedAudioIndex[s]

(***************************************************************************)
(* C21: a 'speech' event whose index is lower than expectedAudioIndex is   *)
(* discarded: the step sends no frame and leaves expectedAudioIndex and    *)
(* audioBuffer of the session as they were, and the session goes on.       *)
(***************************************************************************)
C21_StaleSubmitDiscarded ==
  [][ (/\ Len(arrivals') = Len(arrivals) + 1
       /\ Last(arrivals').index # NULL
       /\ Last(arrivals').index < expectedAudioIndex[Last(arrivals').sess])
      => LET s == Last(arrivals').sess
         IN  /\ wsOut' = wsOut
             /\ expectedAudioIndex'[s] = expectedAudioIndex[s]
             /\ audioBuffer'[s] = audioBuffer[s]
             /\ wired'[s] /\ ~processExit' ]_vars

(***************************************************************************)
(* C22: every fragment handed to the synthesis (the greeting with index    *)
(* null, a reply fragment with its partialResponseIndex) is followed by a  *)
(* 'speech' event with the same index that reaches StreamService.buffer,   *)
(* unless the session's listeners are removed first.  ttsFailed records    *)
(* every generate() call the manager makes.                                *)
(***************************************************************************)
Dispatched(s, k) == \E f \in ttsFailed : f.sess = s /\ f.index = k

Submitted(s, k) ==
  \E i \in DOMAIN arrivals : arrivals[i].sess = s /\ arrivals[i].index = k

C22_DispatchReachesSequencer ==
  \A s \in Sessions : \A k \in Indices \cup {NULL} :
     (Dispatched(s, k) /\ wired[s]) ~> (Submitted(s, k) \/ ~wired[s])

(***************************************************************************)
(* C23: every completion() starts its reply at index 0: the first          *)
(* 'gptreply' of every interaction carries partialResponseIndex 0.         *)
(***************************************************************************)
RepliesOf(s) == SelectSeq(hist.replies, LAMBDA r : r.sess = s)

C23_FirstFragmentIndexZero ==
  \A i \in DOMAIN hist.replies :
    (~\E j \in 1..(i - 1) : /\ hist.replies[j].sess = hist.replies[i].sess
                            /\ hist.replies[j].icount = hist.replies[i].icount)
      => hist.replies[i].index = 0

\* C23 as amended: partialResponseIndex starts at 0 with the session's
\* GptService and is never reset: the n-th 'gptreply' of a session carries
\* index n - 1, whichever interaction it belongs to, and the cursor equals
\* the number of fragments emitted so far.
C23_IndexContinues ==
  \A s \in Created :
    /\ partialResponseIndex[s] = Len(RepliesOf(s))
    /\ \A n \in DOMAIN RepliesOf(s) : RepliesOf(s)[n].index = n - 1

\* the reply to a second final text begins with a fragment of index 1
C23_Witness ==
  \E s \in Created :
    /\ Len(RepliesOf(s)) = 2
    /\ RepliesOf(s)[1].icount = 0 /\ RepliesOf(s)[1].index = 0
    /\ RepliesOf(s)[2].icount = 1 /\ RepliesOf(s)[2].index = 1

(***************************************************************************)
(* C24: a 'gptreply' is emitted only by a step that reads a chunk; it      *)
(* takes the current partialResponseIndex of its session, which the step   *)
(* then increments by one, and the index is greater than that of every     *)
(* fragment the session emitted before; a step that emits nothing leaves   *)
(* every cursor alone; a stream that ends without throwing has emitted a   *)
(* fragment in its last step.  Hence no two fragments of a session, and so *)
(* of an interaction, carry the same index.                                *)
(***************************************************************************)
ChunkRead == budget'["chunk"] = budget["chunk"] - 1

StreamEnded(s) ==
  /\ gptStreams'[s] # gptStreams[s]
  /\ gptStreams'[s] \subseteq gptStreams[s]
  /\ hist'.failedGen = hist.failedGen

RECURSIVE Flatten(_)
Flatten(seqs) == IF seqs = << >> THEN << >> ELSE Head(seqs) \o Flatten(Tail(seqs))

FragmentsOf(replies, s, icount) ==
  LET mine == SelectSeq(replies, LAMBDA r : r.sess = s /\ r.icount = icount)
  IN  [i \in DOMAIN mine |-> mine[i].text]

Appended(s) ==
  /\ Len(userContext'[s]) = Len(userContext[s]) + 1
  /\ SubSeq(userContext'[s], 1, Len(userContext[s])) = userContext[s]

C26_MissingIndexStalls ==
  \A s \in Created : \A k \in Indices :
    ~Submitted(s, k)
      => /\ \A n \in DOMAIN SentIdx(s) : SentIdx(s)[n] < k
         /\ expectedAudioIndex[s] <= k
         /\ wired[s] => \A i \in Indices :
                          (i > k /\ Submitted(s, i)) => i \in DOMAIN audioBuffer[s]

\* index 0 never arrived: 1 and 2 did and wait in the buffer, nothing was sent
C26_Witness ==
  \E s \in Created :
    /\ wired[s]
    /\ ~Submitted(s, 0) /\ Submitted(s, 1) /\ Submitted(s, 2)
    /\ DOMAIN audioBuffer[s] = {1, 2}
    /\ expectedAudioIndex[s] = 0
    /\ wsOut[sessWs[s]] = << >>
    /\ budget["speech"] = 0

(***************************************************************************)
(* C27: a malformed inbound message is discarded: the step that handles it *)
(* changes nothing the handler or any session holds (the session the       *)
(* handler holds, the registry, the listeners, marks, the sequencer, the   *)
(* counters, the generator), sends no frame, passes nothing to the         *)
(* recognizer and leaves the websocket open and the process running.       *)
(***************************************************************************)
C27_MalformedDiscarded ==
  [][ Len(hist'.malformed) = Len(hist.malformed) + 1
      => /\ wsState' = wsState
         /\ connection' = connection
         /\ startAwait' = startAwait
         /\ activeConnections' = activeConnections
         /\ wsOut' = wsOut
         /\ sessVars' = sessVars
         /\ errorLog' = errorLog
         /\ hist'.media = hist.media
         /\ hist'.reported = hist.reported
         /\ stops' = stops
         /\ ~processExit' ]_vars

\* a malformed message was handled while the session had a mark outstanding,
\* and a `media` message that came after it was passed to the recognizer
C27_Witness ==
  \E i \in DOMAIN hist.malformed : \E j \in DOMAIN hist.media :
    /\ j > hist.malformed[i].media
    /\ hist.media[j].forwarded
    /\ hist.media[j].sess # NoSess
    /\ wired[hist.media[j].sess]
    /\ marks[hist.media[j].sess] # << >>

(***************************************************************************)
(* C28: an inbound `media` message is passed to the recognizer only while  *)
(* the session of its connection is ACTIVE: a message that arrives while   *)
(* the start is still awaiting its configuration, or after the stop of the *)
(* session was handled, is dropped.                                        *)
(***************************************************************************)
C28_MediaForwardedIffActive ==
  \A i \in DOMAIN hist.media :
    LET m == hist.media[i]
    IN  (m.sess = NoSess \/ m.stopped) => ~m.forwarded

(***************************************************************************)
(* C29: once the close of a connection and the start received on it have   *)
(* both been processed, whichever was handled first, the session is        *)
(* CLOSED: the connection has no entry in the registry of active           *)
(* connections and no session of it has listeners subscribed.  (No start   *)
(* is received on a closed connection, so a start that is processed after  *)
(* the close was awaiting its configuration when the close was handled.)   *)
(***************************************************************************)
C29_ClosedAfterStartAndClose ==
  \A c \in PairConnIds :
    (wsState[c] = "closed" /\ startAwait[c] = << >>)
      => /\ activeConnections[c] = NoSess
         /\ \A s \in 1..nSess : sessWs[s] = c => ~wired[s]

\* One call that is stopped while its greeting timer is set, fragments are
\* being synthesized and a reply is being generated.
InitEnded ==
  /\ Constructed
  /\ budget = [NoInput EXCEPT !["start"] = MaxStarts, !["stop"] = CallStops,
                              !["speech"] = PairSpeech, !["mark"] = MaxMarksIn,
                              !["trans"] = MaxTrans, !["chunk"] = CallChunks]

NextEnded ==
  \/ \E c \in ConnIds : WsStart(c, "p1")
  \/ \E c \in ConnIds : StartResume(c)
  \/ \E s \in Sessions : GreetingTimer(s)
  \/ \E s \in Sessions : Speech(s, 0)
  \/ \E s \in Sessions : Transcription(s, << " ", "h", "i" >>)
  \/ \E s \in Sessions : GptChunk(s, "bullet")
  \/ \E c \in ConnIds, n \in 0..nextMark : WsMark(c, n)
  \/ \E c \in ConnIds : WsStop(c)

SpecEnded == InitEnded /\ [][NextEnded]_vars

\* cleanupConnection has run for session s
Closed(s) == \E i \in DOMAIN stops : stops[i].sess = s

(***************************************************************************)
(* C30: once a session is CLOSED no step sends a frame of the session on   *)
(* its connection, and no step but the handling of an inbound `mark`       *)
(* changes its outstanding marks: the greeting timer that fires, the       *)
(* fragments whose synthesis ends and the chunks a generation stream       *)
(* delivers after the cleanup send nothing and add no mark.                *)
(***************************************************************************)
C30_NothingSentOnceClosed ==
  [][ \A s \in Created :
        Closed(s) =>
          /\ wsOut'[sessWs[s]] # wsOut[sessWs[s]]
               => /\ Len(arrivals') = Len(arrivals) + 1
                  /\ Last(arrivals').sess # s
          /\ hist'.reported = hist.reported => marks'[s] = marks[s] ]_vars

\* session 1 sent a fragment and was stopped with its mark outstanding, a
\* reply in generation and the greeting timer set; then the stream delivered
\* a fragment, which reached no listener, and the timer fired
C30_Witness ==
  /\ nSess = 1 /\ Closed(1)
  /\ wsOut[sessWs[1]] = sendAudio(1, 1) /\ marks[1] = << 1 >>
  /\ \E i \in DOMAIN hist.replies : hist.replies[i].sess = 1
  /\ ttsFailed = { [sess |-> 1, index |-> NULL] }
  /\ errorLog[1] = 0 /\ processExit

(***************************************************************************)
(* C31: a synthesis or generation failure reported for a session whose     *)
(* cleanup has already removed every listener does not terminate the       *)
(* process.                                                                *)
(***************************************************************************)
C31_LateFailureHarmless ==
  [][ \A s \in Created :
        (/\ Closed(s)
         /\ \/ \E f \in ttsFailed' \ ttsFailed : f.sess = s
            \/ \E f \in hist'.failedGen \ hist.failedGen : f.sess = s)
          => ~processExit' ]_vars

(***************************************************************************)
(* C32: the fragments a session emits, two overlapping generations         *)
(* included, carry pairwise distinct indices which in the order of         *)
(* emission go up by one from the first; so a contiguous drain over the    *)
(* emitted indices that starts at the first passes every one of them and   *)
(* ends at the generator's cursor.                                         *)
(***************************************************************************)
EmittedIndices(s) == { RepliesOf(s)[i].index : i \in DOMAIN RepliesOf(s) }

C32_OverlapGapFree ==
  \A s \in Created :
    LET R == RepliesOf(s)
    IN  /\ \A i, j \in DOMAIN R : i # j => R[i].index # R[j].index
        /\ \A i \in DOMAIN R : i > 1 => R[i].index = R[i - 1].index + 1
        /\ R # << >> =>
             drainTo([k \in EmittedIndices(s) |-> 0], R[1].index)
               = partialResponseIndex[s]

\* the second final text arrived while the first reply was streaming; the
\* second reply emitted first, then the first, then the second again
C32_Witness ==
  \E s \in Created :
    /\ Len(RepliesOf(s)) = 3
    /\ RepliesOf(s)[1].icount = 1 /\ RepliesOf(s)[1].index = 0
    /\ RepliesOf(s)[2].icount = 0 /\ RepliesOf(s)[2].index = 1
    /\ RepliesOf(s)[3].icount = 1 /\ RepliesOf(s)[3].index = 2

\* the indices of the 'speech' events delivered for session s
DeliveredIndices(s) ==
  { arrivals[i].index : i \in { j \in DOMAIN arrivals : arrivals[j].sess = s } }

\* The synthesis of an emitted fragment ends: a 'speech' event with the
\* index of a 'gptreply' of session s, once for each fragment.
SpeechOfReply(s, index) ==
  /\ index \in EmittedIndices(s)
  /\ index \notin DeliveredIndices(s)
  /\ Speech(s, index)

\* One call whose replies are generated, synthesized and sequenced.
InitAlign ==
  /\ Constructed
  /\ budget = [NoInput EXCEPT !["start"] = MaxStarts, !["stop"] = CallStops,
                              !["trans"] = CallTrans, !["chunk"] = MaxChunks,
                              !["speech"] = MaxChunks]

NextAlign ==
  \/ \E c \in ConnIds : WsStart(c, "p1")
  \/ \E c \in ConnIds : StartResume(c)
  \/ \E s \in Sessions : Transcription(s, << " ", "h", "i" >>)
  \/ \E s \in Sessions, k \in {"bullet", "stop"} : GptChunk(s, k)
  \/ \E s \in Sessions, i \in 0..MaxChunks : SpeechOfReply(s, i)
  \/ \E c \in ConnIds : WsStop(c)

SpecAlign == InitAlign /\ [][NextAlign]_vars

(***************************************************************************)
(* C33: the sequencer's expectedAudioIndex never exceeds the generator's   *)
(* partialResponseIndex; and while the session's listeners are in place,   *)
(* once every fragment emitted so far has been delivered the two cursors   *)
(* are equal, so the next fragment, the first of a later reply included,   *)
(* carries the index the sequencer expects, and no buffered fragment waits *)
(* at or above the cursor.                                                 *)
(***************************************************************************)
C33_CursorsAligned ==
  \A s \in Created :
    /\ expectedAudioIndex[s] <= partialResponseIndex[s]
    /\ (wired[s] /\ EmittedIndices(s) \subseteq DeliveredIndices(s))
         => /\ expectedAudioIndex[s] = partialResponseIndex[s]
            /\ \A k \in DOMAIN audioBuffer[s] : k < expectedAudioIndex[s]

\* the first reply (index 0) was delivered, and the only fragment of the
\* second reply, index 1, was sent at once
C33_Witness ==
  \E s \in Created :
    /\ wired[s]
    /\ Len(RepliesOf(s)) = 2
    /\ RepliesOf(s)[1].icount = 0 /\ RepliesOf(s)[2].icount = 1
    /\ arrivals = << [sess |-> s, index |-> 0], [sess |-> s, index |-> 1] >>
    /\ expectedAudioIndex[s] = 2
    /\ Len(wsOut[sessWs[s]]) = 4

(***************************************************************************)
(* C34: on one connection at most one session has its components'          *)
(* listeners subscribed at any time, so that only one pipeline can send    *)
(* frames on the connection.                                               *)
(***************************************************************************)
C34_OnePipelinePerConnection ==
  \A c \in PairConnIds :
    Cardinality({ s \in Created : sessWs[s] = c /\ wired[s] }) <= 1

\* The recognizer of one call delivering results of every kind.
InitDg ==
  /\ Constructed
  /\ budget = [NoInput EXCEPT !["start"] = MaxStarts, !["dg"] = MaxDg]

NextDg ==
  \/ \E c \in ConnIds : WsStart(c, "p1")
  \/ \E c \in ConnIds : StartResume(c)
  \/ \E s \in Sessions : DgOpen(s)
  \/ \E s \in Sessions, k \in ResultKinds : DgTranscript(s, k)

SpecDg == InitDg /\ [][NextDg]_vars

\* the pieces of text in a text: its elements but the separating spaces
Pieces(text) == { text[i] : i \in DOMAIN text } \ { " " }

(***************************************************************************)
(* C35: no piece of recognized text is contained in two 'transcription'    *)
(* events of a session: text emitted once, on a speech-final result or on  *)
(* an UtteranceEnd, is not in a later 'transcription' event.               *)
(***************************************************************************)
C35_TextEmittedOnce ==
  \A i, j \in DOMAIN dgLog :
    (/\ i < j /\ dgLog[i].sess = dgLog[j].sess
     /\ dgLog[i].out = "transcription" /\ dgLog[j].out = "transcription")
      => Pieces(dgLog[i].sent) \cap Pieces(dgLog[j].sent) = {}

\* the final results (is_final, non-blank) of the session of event i that
\* were handled before it
FinalsBefore(i) ==
  { j \in 1..(i - 1) : /\ dgLog[j].sess = dgLog[i].sess
                       /\ dgLog[j].kind \in {"final", "speechFinal"} }

\* the largest element of a non-empty set of numbers
Latest(S) == CHOOSE j \in S : \A k \in S : k <= j

\* the final results handled since the last 'transcription' event before i
Pending(i) ==
  { j \in FinalsBefore(i) :
      ~\E k \in j..(i - 1) : /\ dgLog[k].sess = dgLog[i].sess
                             /\ dgLog[k].out = "transcription" }

(***************************************************************************)
(* C36: an UtteranceEnd whose last preceding final result was speech-final *)
(* (and so was emitted) emits no 'transcription' event; an UtteranceEnd    *)
(* whose last preceding final result was not speech-final emits one, whose *)
(* text holds every final result not emitted before.                       *)
(***************************************************************************)
C36_UtteranceEnd ==
  \A i \in DOMAIN dgLog :
    (dgLog[i].kind = "UtteranceEnd" /\ FinalsBefore(i) # {})
      => IF dgLog[Latest(FinalsBefore(i))].kind = "speechFinal"
           THEN dgLog[i].out = "none"
           ELSE /\ dgLog[i].out = "transcription"
                /\ \A j \in Pending(i) :
                     Pieces(dgLog[j].text) \subseteq Pieces(dgLog[i].sent)

\* a speech-final result, an UtteranceEnd that emitted nothing, a final
\* result that was not speech-final and an UtteranceEnd that emitted it
C36_Witness ==
  /\ Len(dgLog) = 4
  /\ dgLog[1].kind = "speechFinal" /\ dgLog[1].out = "transcription"
  /\ dgLog[2].kind = "UtteranceEnd" /\ dgLog[2].out = "none"
  /\ dgLog[3].kind = "final"
  /\ dgLog[4].kind = "UtteranceEnd" /\ dgLog[4].sent = << " ", "3" >>
  /\ Len(userContext[1]) = Len(InitialContext) + 3

(***************************************************************************)
(* WebSocketConfigService (wsService.ts).  A call runs up to its `await`   *)
(* of the database, the database executes the statement, and the call      *)
(* resumes; calls of several requests interleave at these points.          *)
(***************************************************************************)
callVars == << wsState, connection, startAwait, activeConnections, wsOut,
               sessVars, nextMark, errorLog, processExit, arrivals, ttsFailed,
               heard, finalResult, speechFinal, dgLog, stops, hist >>

CfgIds(m) == { r.id : r \in m }

CfgRow(m, id) == CHOOSE r \in m : r.id = id

\* this.configurations.set(rec.id, rec)
MapSet(m, rec) == { r \in m : r.id # rec.id } \cup { rec }

\* this.configurations.delete(id)
MapDelete(m, id) == { r \in m : r.id # id }

\* the record the history keeps of a call that returned
Returned(op, id, phone, result, existed, stored) ==
  [op |-> op, id |-> id, phoneNumber |-> phone, result |-> result,
   existed |-> existed, stored |-> stored, quiet |-> cfgOps = {}]

\* a call with its statement sent to the database
Sent(op, id, phone) ==
  [n |-> MaxCfg - budget["cfg"], op |-> op, id |-> id, phoneNumber |-> phone,
   isActive |-> IF id \in CfgIds(configurations)
                  THEN CfgRow(configurations, id).isActive ELSE TRUE,
   phase |-> "sent", ok |-> FALSE,
   existed |-> id \in CfgIds(store), quiet |-> cfgOps = {}]

\* initialize(), which the manager awaits when it starts
initialize ==
  /\ ~initialized
  /\ configurations' = store
  /\ initialized' = TRUE
  /\ UNCHANGED << callVars, store, cfgOps, cfgLog, budget >>

createWebSocketConfig(id, phone) ==
  /\ initialized
  /\ budget["cfg"] > 0
  /\ budget' = Use("cfg")
  /\ IF id \in CfgIds(configurations)
       THEN /\ cfgLog' = Append(cfgLog,
                           Returned("create", id, phone, "DUPLICATE_ID",
                                    id \in CfgIds(store), FALSE))
            /\ UNCHANGED cfgOps
       ELSE /\ cfgOps' = cfgOps \cup { Sent("create", id, phone) }
            /\ UNCHANGED cfgLog
  /\ UNCHANGED << callVars, configurations, initialized, store >>

\* getWebSocketConfig(id) finds the instance, config.update(plainData) is
\* sent to the database, and the call awaits it.
updateWebSocketConfig(id, phone) ==
  /\ initialized
  /\ budget["cfg"] > 0
  /\ budget' = Use("cfg")
  /\ IF id \notin CfgIds(configurations)
       THEN /\ cfgLog' = Append(cfgLog,
                           Returned("update", id, phone, "CONFIG_NOT_FOUND",
                                    FALSE, FALSE))
            /\ UNCHANGED cfgOps
       ELSE /\ cfgOps' = cfgOps \cup { Sent("update", id, phone) }
            /\ UNCHANGED cfgLog
  /\ UNCHANGED << callVars, configurations, initialized, store >>

deleteWebSocketConfig(id) ==
  /\ initialized
  /\ budget["cfg"] > 0
  /\ budget' = Use("cfg")
  /\ IF id \notin CfgIds(configurations)
       THEN /\ cfgLog' = Append(cfgLog,
                           Returned("delete", id, "", "CONFIG_NOT_FOUND",
                                    FALSE, FALSE))
            /\ UNCHANGED cfgOps
       ELSE /\ cfgOps' = cfgOps \cup { Sent("delete", id, "") }
            /\ UNCHANGED cfgLog
  /\ UNCHANGED << callVars, configurations, initialized, store >>

\* The database executes the statement of call o, or fails to; an INSERT
\* of an id the table holds fails on the primary key, an UPDATE of a row
\* that is gone changes nothing.
CfgDb(n, ok) ==
  /\ \E x \in cfgOps : x.n = n /\ x.phase = "sent"
  /\ LET o == CHOOSE x \in cfgOps : x.n = n
         done == ok /\ (o.op = "create" => o.id \notin CfgIds(store))
     IN  /\ cfgOps' = (cfgOps \ {o}) \cup { [o EXCEPT !.phase = "done", !.ok = done] }
         /\ store' =
              CASE ~done -> store
                [] o.op = "create" ->
                     store \cup { [id |-> o.id, phoneNumber |-> o.phoneNumber,
                                   isActive |-> TRUE] }
                [] o.op = "update" ->
                     { IF r.id = o.id THEN [r EXCEPT !.phoneNumber = o.phoneNumber]
                       ELSE r : r \in store }
                [] OTHER -> MapDelete(store, o.id)
  /\ UNCHANGED << callVars, configurations, initialized, cfgLog, budget >>

\* Call o resumes after its await: on success it writes the map and
\* returns, on failure it rethrows.
CfgReturn(n) ==
  /\ \E x \in cfgOps : x.n = n /\ x.phase = "done"
  /\ LET o == CHOOSE x \in cfgOps : x.n = n
     IN  /\ cfgOps' = cfgOps \ {o}
         /\ configurations' =
              CASE ~o.ok -> configurations
                [] o.op = "create" ->
                     MapSet(configurations,
                            [id |-> o.id, phoneNumber |-> o.phoneNumber,
                             isActive |-> TRUE])
                [] o.op = "update" ->
                     MapSet(configurations,
                            [id |-> o.id, phoneNumber |-> o.phoneNumber,
                             isActive |-> o.isActive])
                [] OTHER -> MapDelete(configurations, o.id)
         /\ cfgLog' = Append(cfgLog,
                        [op |-> o.op, id |-> o.id, phoneNumber |-> o.phoneNumber,
                         result |-> IF o.ok THEN "ok" ELSE "DB_ERROR",
                         existed |-> o.existed, stored |-> FALSE,
                         quiet |-> o.quiet])
  /\ UNCHANGED << callVars, initialized, store, budget >>

\* getWebSocketConfigByPhone on the map as it is now
CfgByPhone(phone) ==
  /\ initialized
  /\ budget["cfg"] > 0
  /\ budget' = Use("cfg")
  /\ cfgLog' = Append(cfgLog,
                 Returned("byPhone", "", phone,
                          IF \E r \in configurations : r.phoneNumber = phone
                            THEN "ok" ELSE "CONFIG_NOT_FOUND",
                          FALSE, \E r \in store : r.phoneNumber = phone))
  /\ UNCHANGED << callVars, configurations, initialized, store, cfgOps >>

\* The configuration service serving requests.
InitCfg ==
  /\ Constructed
  /\ budget = [NoInput EXCEPT !["cfg"] = MaxCfg]

NextCfg ==
  \/ initialize
  \/ \E id \in {"cfg1", "cfg3"} : createWebSocketConfig(id, "p3")
  \/ \E id \in {"cfg1", "cfg3"} : updateWebSocketConfig(id, "p3")
  \/ \E id \in {"cfg1", "cfg3"} : deleteWebSocketConfig(id)
  \/ \E n \in 0..MaxCfg, ok \in BOOLEAN : CfgDb(n, ok)
  \/ \E n \in 0..MaxCfg : CfgReturn(n)
  \/ \E p \in {"p1", "p3"} : CfgByPhone(p)

SpecCfg == InitCfg /\ [][NextCfg]_vars

(***************************************************************************)
(* C37: when no call of the configuration service is in progress the map   *)
(* holds exactly the configurations of the store, those loaded or created  *)
(* and not deleted since; a create of an id that exists fails with         *)
(* DUPLICATE_ID; and getWebSocketConfigByPhone fails with CONFIG_NOT_FOUND *)
(* exactly when no stored configuration has the phone number.  The calls   *)
(* the last two parts speak of are those made while no other call is in    *)
(* progress.                                                               *)
(***************************************************************************)
C37_MapMirrorsStore ==
  /\ (initialized /\ cfgOps = {}) => CfgIds(configurations) = CfgIds(store)
  /\ \A i \in DOMAIN cfgLog :
       LET e == cfgLog[i]
       IN  /\ (e.op = "create" /\ e.quiet /\ e.existed) => e.result = "DUPLICATE_ID"
           /\ (e.op = "byPhone" /\ e.quiet)
                => (e.result = "CONFIG_NOT_FOUND" <=> ~e.stored)

====
